---- MODULE Spec2Model ----
(***************************************************************************)
(* Model of the bybit-options-roller core: the persisted task row with its *)
(* optimistic lock (TaskRepository), the roll saga (RollerService), the    *)
(* dispatcher and worker pool (worker.Manager), the next-strike rule       *)
(* (OptionSymbol.FindNextStrike) and the price stream (bybit.MarketStream).*)
(*                                                                         *)
(* Spec       the whole core: dispatcher, workers, saga, store, restarts   *)
(* SpecFns    FindNextStrike on bounded inputs                             *)
(* SpecStore  UpdateTaskState, RegisterError, SaveError on bounded inputs   *)
(* SpecSaga   ExecuteRoll on bounded snapshots and rows                    *)
(* SpecStream MarketStream with hot reload of subscriptions                *)
(* SpecReader MarketStream as Manager.Run starts it, no task created       *)
(* SpecQueue  one fault-free run: price events, job queue, workers, saga   *)
(* SpecAttempts  successive rolls of a task across kills and restarts      *)
(* SpecCancel ExecuteRoll with the context cancelled at any point          *)
(* SpecShould ShouldRoll on bounded inputs                                 *)
(* SpecPosition  ExecuteRoll against positions of any size and side, with  *)
(*            limit orders that match at once, in part or rest in the book *)
(* SpecPool   SpecQueue with workers held by the retry loops of other tasks*)
(*                                                                         *)
(* One task is modelled.  Its option symbol BASE-DDMMMYY-STRIKE-K is the   *)
(* pair (strike, optKind); base and expiry never change in a roll.         *)
(***************************************************************************)
EXTENDS FiniteSets, Integers, Sequences, TLC

\* ---- bounds of the model ------------------------------------------------
NumWorkers == 2        \* worker goroutines modelled (the code starts 5)
QueueCap == 2          \* capacity of jobChan modelled (the code uses 100)
MaxRuns == 2           \* process starts explored (first start + restarts)
MaxStrike == 3         \* strikes 1..MaxStrike exist on the exchange
MaxFnsStrike == 4      \* strikes 1..MaxFnsStrike in the FindNextStrike harness
MaxVersion == 3        \* row versions 1..MaxVersion in the store harness
NumSyms == 2           \* underlying symbols 1..NumSyms (BTCUSDT, ETHUSDT, ...)
MaxDials == 2          \* connection attempts of the market stream explored
OutCap == 1            \* capacity of the stream's output channel modelled (the code uses 100)
MaxCreates == 2        \* tasks created through the bot handler while the process runs
MaxQty == 2            \* position quantities 1..MaxQty in the position scenarios

\* ---- values of the scenario ---------------------------------------------
\* strike of the task's option when it is created: one strike of the chain
\* lies above it and at least one below
InitStrike == MaxStrike - 1
\* trigger_price of the task, at the strike as in the happy-path scenario
Trigger == InitStrike
\* current_qty of the task when it is created (units of the lot size)
InitQty == 1

Workers == 1..NumWorkers
Strikes == 1..MaxStrike
Prices == {Trigger - 1, Trigger + 1}
OptKinds == {"C", "P"}

\* domain.TaskState
TaskStateIdle == "IDLE"
TaskStateRollInitiated == "ROLL_INITIATED"
TaskStateLeg1Closed == "LEG1_CLOSED"
TaskStateCompleted == "COMPLETED"
TaskStateFailed == "FAILED"

\* error messages
ErrDeadline == "deadline exceeded"
ErrMargin == "insufficient margin"
ErrCtx == "context canceled"
ErrDb == "db exec error"
ErrLock == "optimistic locking failed: task 1 modified concurrently"
\* what the database driver reports when ExecContext fails
DbCauses == {"connection refused", "read tcp 10.0.0.5:5432: i/o timeout"}
ErrNoHigher == "no higher strike available"
ErrHighest == "already at highest strike"
ExchErrs == {ErrDeadline, ErrMargin}
\* the text ExecuteRoll puts before a Leg 2 error (after its fire sign)
Leg2FatalText == "FATAL: Leg 2 failed after Leg 1 closed! Position is naked. Err"

VARIABLES
    row,          \* the persisted task row: status, version, strike, lastError
    optKind,      \* "C" or "P": the -C / -P suffix of the task's option symbol
    orders,       \* exchange: the orders accepted so far
    expired,      \* now_utc > expiry + 5 minutes
    proc,         \* the process: "down", "boot", "running", "draining", "halted"
    runs,         \* number of process starts so far
    cancelled,    \* the top-level context is cancelled
    activeTasks,  \* Manager.Run's local snapshot of the active tasks
    jobChan,      \* Manager.jobChan
    wk,           \* per worker goroutine: position and locals of ExecuteRoll
    fns,          \* FindNextStrike harness: input and result
    sc,           \* task-store harness: one store call and its result
    ms,           \* MarketStream and the dispatcher's subscriptions
    exch          \* exchange: the positions of the task and the orders resting in the book

vars == <<row, optKind, orders, expired, proc, runs, cancelled,
          activeTasks, jobChan, wk, fns, sc, ms, exch>>

sysVars == <<row, optKind, orders, expired, proc, runs, cancelled,
             activeTasks, jobChan, wk, exch>>

\* ---- pure functions -----------------------------------------------------

\* sort.Slice(strikesList, LessThan): the ascending sequence of a set of strikes
RECURSIVE SortAsc(_)
SortAsc(S) ==
    IF S = {} THEN <<>>
    ELSE LET m == CHOOSE x \in S : \A y \in S : x <= y
         IN <<m>> \o SortAsc(S \ {m})

\* first index i of seq with seq[i] = x, 0 if there is none (currentIndex, -1 in Go)
IndexOf(seq, x) ==
    IF \E i \in 1..Len(seq) : seq[i] = x
    THEN CHOOSE i \in 1..Len(seq) : seq[i] = x /\ \A j \in 1..(i - 1) : seq[j] # x
    ELSE 0

\* OptionSymbol.FindNextStrike: [ok, strike, err].  The option kind (os.Side)
\* is only copied into the returned symbol; it does not steer the search.
FindNextStrike(strike, kind, chain) ==
    LET list == SortAsc(chain)
        currentIndex == IndexOf(list, strike)
        higher == {i \in 1..Len(list) : list[i] > strike}
    IN IF currentIndex = 0
       THEN IF higher # {}
            THEN [ok |-> TRUE,
                  strike |-> list[CHOOSE i \in higher : \A j \in higher : i <= j],
                  err |-> ""]
            ELSE [ok |-> FALSE, strike |-> 0, err |-> ErrNoHigher]
       ELSE IF currentIndex + 1 > Len(list)
            THEN [ok |-> FALSE, strike |-> 0, err |-> ErrHighest]
            ELSE [ok |-> TRUE, strike |-> list[currentIndex + 1], err |-> ""]

\* Task.IsCallOption
IsCallOption(kind) == kind = "C"

\* ShouldRoll with strict comparisons (GreaterThan / LessThan)
ShouldRollStrict(status, kind, price) ==
    IF status # TaskStateIdle THEN FALSE
    ELSE IF IsCallOption(kind) THEN price > Trigger
    ELSE price < Trigger

\* ShouldRoll without "if t.Status != TaskStateIdle { return false }"
ShouldRollAnyStatus(status, kind, price) ==
    IF IsCallOption(kind) THEN price >= Trigger
    ELSE price <= Trigger

\* Task.ShouldRoll
ShouldRoll(status, kind, price) ==
    IF status # TaskStateIdle THEN FALSE
    ELSE IF IsCallOption(kind) THEN price >= Trigger
    ELSE price <= Trigger

\* strings.Contains
Contains(s, substr) ==
    \E i \in 1..(Len(s) + 1 - Len(substr)) :
      SubSeq(s, i, i + Len(substr) - 1) = substr

\* fmt.Errorf("<text>: %w", err)
Wrap(text, e) == text \o ": " \o e

\* TaskRepository.RegisterError: the transient patterns
IsTransient(msg) ==
    \/ Contains(msg, "timeout")
    \/ Contains(msg, "deadline exceeded")
    \/ Contains(msg, "502 Bad Gateway")
    \/ Contains(msg, "504 Gateway Timeout")

\* ---- the task store -----------------------------------------------------

\* GetActiveTasks: WHERE status IN ('IDLE', 'ROLL_INITIATED', 'LEG1_CLOSED')
GetActiveTasks(r) ==
    IF r.status \in {TaskStateIdle, TaskStateRollInitiated, TaskStateLeg1Closed}
    THEN <<[status |-> r.status, version |-> r.version, strike |-> r.strike,
            qty |-> r.qty]>>
    ELSE <<>>

\* a versioned UPDATE whose WHERE clause lost "AND version = $n"
StoreOutcomesNoVersion(v) ==
    {"dberr"} \cup (IF cancelled THEN {} ELSE {"ok"})

\* a versioned UPDATE that runs although its context is cancelled
StoreOutcomesIgnoreCtx(v) ==
    {"dberr"} \cup (IF row.version = v THEN {"ok"} ELSE {"contention"})

\* Outcomes of a versioned UPDATE ... WHERE version = v: "ok" (one row
\* affected), "contention" (no row affected), "dberr" (ExecContext failed;
\* the only outcome once the context is cancelled).
StoreOutcomes(v) ==
    {"dberr"} \cup (IF cancelled THEN {}
                    ELSE IF row.version = v THEN {"ok"} ELSE {"contention"})

\* the error a failed UPDATE returns: fmt.Errorf("db exec error: %w", err)
\* around the driver's error, or the locking error when no row was affected
StoreErrs(o) ==
    IF o = "dberr"
    THEN {Wrap(ErrDb, c) : c \in (IF cancelled THEN {ErrCtx} ELSE DbCauses)}
    ELSE {ErrLock}

\* UpdateTaskState that forgets "version = version + 1"
UpdateTaskStateNoBump(r, newState) ==
    [r EXCEPT !.status = newState]

\* TaskRepository.UpdateTaskState, applied to the row when the outcome is "ok"
UpdateTaskState(r, newState) ==
    [r EXCEPT !.status = newState, !.version = @ + 1]

\* UpdateTaskSymbol that forgets "version = version + 1"
UpdateTaskSymbolNoBump(r, newStrike, newQty) ==
    [r EXCEPT !.strike = newStrike, !.qty = newQty, !.status = TaskStateIdle]

\* TaskRepository.UpdateTaskSymbol, applied to the row when the outcome is "ok"
UpdateTaskSymbol(r, newStrike, newQty) ==
    [r EXCEPT !.strike = newStrike, !.qty = newQty, !.status = TaskStateIdle,
              !.version = @ + 1]

\* RegisterError without the transient patterns: every error marks FAILED
RegisterErrorFatal(r, msg) ==
    [r EXCEPT !.lastError = msg, !.status = TaskStateFailed]

\* TaskRepository.RegisterError: unconditional on version, version untouched
RegisterError(r, msg) ==
    [r EXCEPT !.lastError = msg,
              !.status = IF IsTransient(msg) THEN TaskStateIdle ELSE TaskStateFailed]

\* TaskRepository.SaveError: last_error and FAILED, unconditional on version.
\* Part of the repository interface; nothing in the repository calls it.
SaveError(r, errMessage) ==
    [r EXCEPT !.lastError = errMessage, !.status = TaskStateFailed]

\* ---- the exchange -------------------------------------------------------

\* errors an exchange call can return now
CallErrs == IF cancelled THEN {ErrCtx} ELSE ExchErrs

\* "close-%d-v%d" / "open-%d-v%d": the order as the exchange receives it
Order(kind, version, strike, side, qty) ==
    [kind |-> kind, ver |-> version, strike |-> strike, side |-> side, qty |-> qty]

\* domain.Side
SideBuy == "Buy"
SideSell == "Sell"
\* the side of the exchange position of the task (a short option)
PositionSide == "Sell"

\* Client.PlaceOrder sends category, symbol, side, orderType, qty,
\* orderLinkId, price and reduceOnly: OrderRequest has no time in force, so
\* the exchange receives a plain limit order. What it can do on acceptance:
\* match in full, match in part, or match nothing; what is not matched
\* rests in the book.
MatchOutcomes == {"filled", "partial", "unfilled"}

MatchOutcome(q, qty) ==
    IF q = qty THEN "filled" ELSE IF q = 0 THEN "unfilled" ELSE "partial"

\* the quantities an accepted order for qty may match on acceptance
Matched(qty) == {q \in 0..qty : MatchOutcome(q, qty) \in exch.fills}

\* no order rests
NoRest == [s \in Strikes |-> [close |-> 0, open |-> 0]]

\* the exchange with one position of the task: qty contracts of the option
\* at strike, held on side, and an empty book
Exchange(strike, qty, side, fills) ==
    [pos |-> [s \in Strikes |-> IF s = strike THEN qty ELSE 0],
     side |-> side, fills |-> fills, rest |-> NoRest]

\* ---- worker locals ------------------------------------------------------

IdleWorker ==
    [pc |-> "idle", status |-> TaskStateIdle, version |-> 0, strike |-> 0,
     qty |-> 0, posQty |-> 0, snap |-> 0, side |-> "", price |-> 0, depth |-> 0, recovery |-> FALSE,
     next |-> 0,
     err |-> "", ret |-> "none",
     locked |-> FALSE, gate |-> "none", nClose |-> 0, nOpen |-> 0,
     committed |-> FALSE, submitFailed |-> FALSE]

\* ExecuteRoll returns e ("nil" or an error message) to Manager.worker; the
\* goroutine's locals are dead, what the execution did is kept for the record
Return(r, e) ==
    [IdleWorker EXCEPT !.ret = e, !.snap = r.snap, !.strike = r.strike,
                       !.locked = r.locked, !.recovery = r.recovery,
                       !.gate = r.gate, !.nClose = r.nClose, !.nOpen = r.nOpen,
                       !.committed = r.committed]

\* processLeg2 at nesting depth r.depth returns e ("" for nil) to its caller:
\* the retry loop of the enclosing processLeg2, or ExecuteRoll at depth 0.
RECURSIVE Leg2Return(_, _)
Leg2Return(r, e) ==
    IF r.depth > 0
    THEN IF e = ""
         THEN Leg2Return([r EXCEPT !.depth = @ - 1], "")
         ELSE [r EXCEPT !.depth = @ - 1, !.pc = "loop_sleep", !.err = e]
    ELSE IF e = ""
         THEN Return(r, "nil")
         ELSE IF r.recovery
              THEN Return(r, e)
              ELSE [r EXCEPT !.pc = "leg2_fatal", !.err = e]

\* ---- initial state ------------------------------------------------------

FnsIdle == [phase |-> "none", strike |-> 0, kind |-> "C", chain |-> {},
            out |-> [ok |-> FALSE, strike |-> 0, err |-> ""]]

\* the call harness before a call is chosen
ScIdle == [phase |-> "none", op |-> "", arg |-> "", v |-> 0, before |-> <<>>, err |-> "",
           ok |-> FALSE]

\* the goroutines "go ReloadTasks" of the bot handler, one per created task
Reloads == 1..MaxCreates

\* a reload goroutine that has not been started
RlOff == [pc |-> "off", symbols |-> {}, newSubs |-> {}, ret |-> "none", at |-> "none"]

\* NewMarketStream: no connection, no subscriptions, nobody holds the mutex;
\* Manager.Run has not read the tasks, the handler has created none
MsIdle ==
    [pc |-> "off", conn |-> 0, dials |-> 0, live |-> {}, subs |-> {},
     activeSubs |-> {}, mu |-> 0, pingFailed |-> FALSE,
     out |-> <<>>, store |-> {}, snap |-> {},
     run |-> "off", symbols |-> {}, created |-> 0,
     rl |-> [g \in Reloads |-> RlOff]]

\* CreateTask: status IDLE, version 1
Init ==
    /\ row = [status |-> TaskStateIdle, version |-> 1, strike |-> InitStrike,
              qty |-> InitQty, lastError |-> ""]
    /\ optKind \in OptKinds
    /\ orders = {}
    /\ expired = FALSE
    /\ proc = "boot"
    /\ runs = 1
    /\ cancelled = FALSE
    /\ activeTasks = <<>>
    /\ jobChan = <<>>
    /\ wk = [w \in Workers |-> IdleWorker]
    /\ fns = FnsIdle
    /\ sc = ScIdle
    /\ ms = MsIdle
    /\ exch = Exchange(InitStrike, InitQty, PositionSide, {"filled"})


\* ---- environment --------------------------------------------------------

\* The process dies: SIGKILL, a panic, or main returning after <-ctx.Done().
\* Goroutines, the job channel and the in-memory snapshot are gone.
ProcessDown ==
    /\ proc' = "down"
    /\ cancelled' = FALSE
    /\ activeTasks' = <<>>
    /\ jobChan' = <<>>
    /\ wk' = [w \in Workers |-> IdleWorker]

Kill ==
    /\ proc # "down"
    /\ ProcessDown
    /\ UNCHANGED <<row, optKind, orders, expired, runs, fns, sc, ms, exch>>

Restart ==
    /\ proc = "down"
    /\ runs < MaxRuns
    /\ proc' = "boot"
    /\ runs' = runs + 1
    /\ UNCHANGED <<row, optKind, orders, expired, cancelled, activeTasks,
                   jobChan, wk, fns, sc, ms, exch>>

\* signal.NotifyContext: SIGINT / SIGTERM cancels the top-level context
Cancel ==
    /\ proc # "down"
    /\ ~cancelled
    /\ cancelled' = TRUE
    /\ UNCHANGED <<row, optKind, orders, expired, proc, runs, activeTasks,
                   jobChan, wk, fns, sc, ms, exch>>

\* time passes beyond expiry + 5 minutes
Expire ==
    /\ ~expired
    /\ expired' = TRUE
    /\ UNCHANGED <<row, optKind, orders, proc, runs, cancelled,
                   activeTasks, jobChan, wk, fns, sc, ms, exch>>

\* ---- Manager ------------------------------------------------------------

\* Manager.Run up to the dispatcher loop: GetActiveTasks, Subscribe, start
\* the workers.  A failing GetActiveTasks or Subscribe makes Run return.
ManagerRun ==
    /\ proc = "boot"
    /\ \/ /\ ~cancelled
          /\ activeTasks' = GetActiveTasks(row)
          /\ proc' = "running"
       \/ /\ proc' = "halted"
          /\ UNCHANGED activeTasks
    /\ UNCHANGED <<row, optKind, orders, expired, runs, cancelled,
                   jobChan, wk, fns, sc, ms, exch>>

\* the jobs one price event puts on jobChan, task by task, dropping on full
RECURSIVE Enqueue(_, _, _)
Enqueue(q, tasks, price) ==
    IF tasks = <<>> THEN q
    ELSE Enqueue(IF Len(q) < QueueCap
                 THEN Append(q, [task |-> Head(tasks), price |-> price])
                 ELSE q,
                 Tail(tasks), price)

\* the snapshot entries a price event selects
RECURSIVE Affected(_, _)
Affected(tasks, price) ==
    IF tasks = <<>> THEN <<>>
    ELSE (IF ShouldRoll(Head(tasks).status, optKind, price)
          THEN <<Head(tasks)>> ELSE <<>>) \o Affected(Tail(tasks), price)

\* a dispatcher with a plain send "m.jobChan <- job": it waits for room
DispatchBlocking(price) ==
    /\ proc = "running"
    /\ Len(jobChan) + Len(Affected(activeTasks, price)) <= QueueCap
    /\ jobChan' = Enqueue(jobChan, Affected(activeTasks, price), price)
    /\ UNCHANGED <<row, optKind, orders, expired, proc, runs, cancelled,
                   activeTasks, wk, fns, sc, ms, exch>>

\* Manager.Run, case event := <-priceUpdates (event.Symbol is the task's
\* underlying symbol)
Dispatch(price) ==
    /\ proc = "running"
    /\ jobChan' = Enqueue(jobChan, Affected(activeTasks, price), price)
    /\ UNCHANGED <<row, optKind, orders, expired, proc, runs, cancelled,
                   activeTasks, wk, fns, sc, ms, exch>>

\* Manager.Run, case <-ctx.Done()
ManagerStop ==
    /\ proc = "running"
    /\ cancelled
    /\ proc' = "draining"
    /\ UNCHANGED <<row, optKind, orders, expired, runs, cancelled,
                   activeTasks, jobChan, wk, fns, sc, ms, exch>>

WorkersUp == proc \in {"running", "draining"}

\* Manager.worker, case job := <-m.jobChan: credential lookup, then ExecuteRoll.
\* GetByID returns (nil, nil) when the key row is missing and the worker
\* dereferences it: the process panics.
\* The goroutines blocked on the channel are interchangeable (the worker id
\* only appears in log lines), so the receive is given to the one with the
\* lowest index.
WorkerTake(w) ==
    /\ WorkersUp
    /\ wk[w].pc = "idle"
    /\ \A v \in Workers : v < w => wk[v].pc # "idle"
    /\ jobChan # <<>>
    /\ LET job == Head(jobChan) IN
       \/ /\ jobChan' = Tail(jobChan)
          /\ UNCHANGED <<wk, proc, cancelled, activeTasks>>
       \/ /\ ~cancelled
          /\ jobChan' = Tail(jobChan)
          /\ wk' = [wk EXCEPT ![w] =
                      [IdleWorker EXCEPT !.pc = "exec",
                                         !.status = job.task.status,
                                         !.version = job.task.version,
                                         !.snap = job.task.version,
                                         !.strike = job.task.strike,
                                         !.qty = job.task.qty,
                                         !.price = job.price]]
          /\ UNCHANGED <<proc, cancelled, activeTasks>>
       \/ /\ ~cancelled
          /\ ProcessDown
    /\ UNCHANGED <<row, optKind, orders, expired, runs, fns, sc, ms, exch>>

\* Manager.worker, case <-ctx.Done()
WorkerExit(w) ==
    /\ WorkersUp
    /\ wk[w].pc = "idle"
    /\ cancelled
    /\ wk' = [wk EXCEPT ![w].pc = "exited"]
    /\ UNCHANGED <<row, optKind, orders, expired, proc, runs, cancelled,
                   activeTasks, jobChan, fns, sc, ms, exch>>


\* ---- RollerService: the roll saga ---------------------------------------


\* ExecuteRoll that treats a failed locking transition as a Leg 1 failure:
\* handleError and return err
ExecuteRollLockFails(w) ==
    /\ WorkersUp
    /\ wk[w].pc = "exec"
    /\ LET r == wk[w] IN
       IF r.status = TaskStateLeg1Closed
       THEN /\ wk' = [wk EXCEPT ![w] = [r EXCEPT !.recovery = TRUE, !.pc = "leg2_chain"]]
            /\ UNCHANGED row
       ELSE IF ~ShouldRoll(r.status, optKind, r.price)
       THEN /\ wk' = [wk EXCEPT ![w] = Return(r, "nil")]
            /\ UNCHANGED row
       ELSE \E o \in StoreOutcomes(r.version) :
              IF o = "ok"
              THEN /\ row' = UpdateTaskState(row, TaskStateRollInitiated)
                   /\ wk' = [wk EXCEPT ![w] = [r EXCEPT !.version = @ + 1,
                                                        !.locked = TRUE,
                                                        !.pc = "leg1_probe"]]
              ELSE /\ \E m \in StoreErrs(o) :
                        wk' = [wk EXCEPT ![w] = [r EXCEPT !.err = m,
                                                          !.pc = "leg1_fail"]]
                   /\ UNCHANGED row
    /\ UNCHANGED <<optKind, orders, expired, proc, runs, cancelled,
                   activeTasks, jobChan, fns, sc, ms, exch>>

\* ExecuteRoll without the recovery short-circuit: every snapshot goes
\* through the trigger check
ExecuteRollNoRecovery(w) ==
    /\ WorkersUp
    /\ wk[w].pc = "exec"
    /\ LET r == wk[w] IN
       IF ~ShouldRoll(r.status, optKind, r.price)
       THEN /\ wk' = [wk EXCEPT ![w] = Return(r, "nil")]
            /\ UNCHANGED row
       ELSE \E o \in StoreOutcomes(r.version) :
              IF o = "ok"
              THEN /\ row' = UpdateTaskState(row, TaskStateRollInitiated)
                   /\ wk' = [wk EXCEPT ![w] = [r EXCEPT !.version = @ + 1,
                                                        !.locked = TRUE,
                                                        !.pc = "leg1_probe"]]
              ELSE /\ wk' = [wk EXCEPT ![w] = Return(r, "nil")]
                   /\ UNCHANGED row
    /\ UNCHANGED <<optKind, orders, expired, proc, runs, cancelled,
                   activeTasks, jobChan, fns, sc, ms, exch>>

\* ExecuteRoll up to the locking transition: recovery short-circuit,
\* trigger check, UpdateTaskState(ROLL_INITIATED, task.Version)
ExecuteRoll(w) ==
    /\ WorkersUp
    /\ wk[w].pc = "exec"
    /\ LET r == wk[w] IN
       IF r.status = TaskStateLeg1Closed
       THEN /\ wk' = [wk EXCEPT ![w] = [r EXCEPT !.recovery = TRUE, !.pc = "leg2_chain"]]
            /\ UNCHANGED row
       ELSE IF ~ShouldRoll(r.status, optKind, r.price)
       THEN /\ wk' = [wk EXCEPT ![w] = Return(r, "nil")]
            /\ UNCHANGED row
       ELSE \E o \in StoreOutcomes(r.version) :
              IF o = "ok"
              THEN /\ row' = UpdateTaskState(row, TaskStateRollInitiated)
                   /\ wk' = [wk EXCEPT ![w] = [r EXCEPT !.version = @ + 1,
                                                        !.locked = TRUE,
                                                        !.pc = "leg1_probe"]]
              ELSE /\ wk' = [wk EXCEPT ![w] = Return(r, "nil")]
                   /\ UNCHANGED row
    /\ UNCHANGED <<optKind, orders, expired, proc, runs, cancelled,
                   activeTasks, jobChan, fns, sc, ms, exch>>

\* processLeg1 without the default: TargetSide stays as the snapshot has it
TargetSideUnset(side) ==
    side

\* processLeg1: if task.TargetSide == "" { task.TargetSide = domain.SideSell }
TargetSideDefault(side) ==
    IF side = "" THEN SideSell ELSE side

\* processLeg1: TargetSide default, expiry gate, GetPosition.  The quantity
\* the exchange reports is that of the position, which may have been closed
\* by hand or liquidated by now.
Leg1Probe(w) ==
    /\ WorkersUp
    /\ wk[w].pc = "leg1_probe"
    /\ LET r == [wk[w] EXCEPT !.side = TargetSideDefault(@)] IN
       IF expired
       THEN /\ wk' = [wk EXCEPT ![w] = [r EXCEPT !.gate = "expired", !.pc = "leg1_complete"]]
            /\ UNCHANGED exch
       ELSE \/ /\ \E e \in CallErrs :
                    wk' = [wk EXCEPT ![w] = [r EXCEPT !.err = Wrap("fetch position", e),
                                                      !.pc = "leg1_fail"]]
               /\ UNCHANGED exch
            \/ /\ ~cancelled
               /\ \E qty \in {0, exch.pos[r.strike]} :
                    /\ exch' = [exch EXCEPT !.pos[r.strike] = qty]
                    /\ wk' = [wk EXCEPT ![w] =
                                IF qty = 0
                                THEN [r EXCEPT !.gate = "vanished", !.pc = "leg1_complete"]
                                ELSE [r EXCEPT !.posQty = qty, !.pc = "leg1_mark"]]
    /\ UNCHANGED <<row, optKind, orders, expired, proc, runs, cancelled,
                   activeTasks, jobChan, fns, sc, ms>>

\* processLeg1: return s.taskRepo.UpdateTaskState(COMPLETED, task.Version);
\* on nil ExecuteRoll goes on to processLeg2 with task.Version as it was
Leg1Complete(w) ==
    /\ WorkersUp
    /\ wk[w].pc = "leg1_complete"
    /\ LET r == wk[w] IN
       \E o \in StoreOutcomes(r.version) :
         IF o = "ok"
         THEN /\ row' = UpdateTaskState(row, TaskStateCompleted)
              /\ wk' = [wk EXCEPT ![w] = [r EXCEPT !.pc = "leg2_chain"]]
         ELSE /\ \E m \in StoreErrs(o) :
                   wk' = [wk EXCEPT ![w] = [r EXCEPT !.err = m, !.pc = "leg1_fail"]]
              /\ UNCHANGED row
    /\ UNCHANGED <<optKind, orders, expired, proc, runs, cancelled,
                   activeTasks, jobChan, fns, sc, ms, exch>>

\* processLeg1: GetMarkPrice of the current symbol; a task without
\* TargetSide takes the side of the position
Leg1MarkPrice(w) ==
    /\ WorkersUp
    /\ wk[w].pc = "leg1_mark"
    /\ LET r == wk[w] IN
       \/ \E e \in CallErrs :
            wk' = [wk EXCEPT ![w] =
                     [r EXCEPT !.err = Wrap("failed to get mark price for leg1", e),
                               !.pc = "leg1_fail"]]
       \/ /\ ~cancelled
          /\ wk' = [wk EXCEPT ![w] = [r EXCEPT !.side = IF @ = "" THEN exch.side ELSE @,
                                                !.pc = "leg1_order"]]
    /\ UNCHANGED <<row, optKind, orders, expired, proc, runs, cancelled,
                   activeTasks, jobChan, fns, sc, ms, exch>>

\* processLeg1: PlaceOrder close-{id}-v{version}, reduce-only limit order
\* for the quantity the probe reported (the "IOC" of the call site is not
\* part of the request); an accepted order matches against what is held and
\* its remainder rests
Leg1PlaceOrder(w) ==
    /\ WorkersUp
    /\ wk[w].pc = "leg1_order"
    /\ LET r == wk[w]
           closeSide == IF exch.side = SideBuy THEN SideSell ELSE SideBuy
           held == exch.pos[r.strike]
           reduce == IF r.posQty < held THEN r.posQty ELSE held
       IN
       \/ /\ \E e \in CallErrs :
               wk' = [wk EXCEPT ![w] = [r EXCEPT !.err = e, !.submitFailed = TRUE,
                                                 !.pc = "leg1_fail"]]
          /\ UNCHANGED <<orders, exch>>
       \/ /\ ~cancelled
          /\ orders' = orders \cup {Order("close", r.version, r.strike, closeSide, r.posQty)}
          /\ \E q \in Matched(reduce) :
               exch' = [exch EXCEPT !.pos[r.strike] = @ - q,
                                    !.rest[r.strike].close = @ + (reduce - q)]
          /\ wk' = [wk EXCEPT ![w] = [r EXCEPT !.nClose = @ + 1, !.pc = "leg1_ckpt"]]
    /\ UNCHANGED <<row, optKind, expired, proc, runs, cancelled,
                   activeTasks, jobChan, fns, sc, ms>>

\* a checkpoint whose failure is treated as a Leg 1 failure: return err
Leg1CheckpointAborts(w) ==
    /\ WorkersUp
    /\ wk[w].pc = "leg1_ckpt"
    /\ LET r == wk[w] IN
       \E o \in StoreOutcomes(r.version) :
         IF o = "ok"
         THEN /\ row' = UpdateTaskState(row, TaskStateLeg1Closed)
              /\ wk' = [wk EXCEPT ![w] = [r EXCEPT !.version = @ + 1, !.pc = "leg2_chain"]]
         ELSE /\ \E m \in StoreErrs(o) :
                   wk' = [wk EXCEPT ![w] = [r EXCEPT !.err = m, !.pc = "leg1_fail"]]
              /\ UNCHANGED row
    /\ UNCHANGED <<optKind, orders, expired, proc, runs, cancelled,
                   activeTasks, jobChan, fns, sc, ms, exch>>

\* processLeg1: CHECKPOINT UpdateTaskState(LEG1_CLOSED, task.Version); a
\* failure is logged and processLeg1 still returns nil
Leg1Checkpoint(w) ==
    /\ WorkersUp
    /\ wk[w].pc = "leg1_ckpt"
    /\ LET r == wk[w] IN
       \E o \in StoreOutcomes(r.version) :
         IF o = "ok"
         THEN /\ row' = UpdateTaskState(row, TaskStateLeg1Closed)
              /\ wk' = [wk EXCEPT ![w] = [r EXCEPT !.version = @ + 1, !.pc = "leg2_chain"]]
         ELSE /\ wk' = [wk EXCEPT ![w] = [r EXCEPT !.pc = "leg2_chain"]]
              /\ UNCHANGED row
    /\ UNCHANGED <<optKind, orders, expired, proc, runs, cancelled,
                   activeTasks, jobChan, fns, sc, ms, exch>>

\* ExecuteRoll: processLeg1 failed: handleError (RegisterError, its own
\* error ignored) and return err
HandleError(w) ==
    /\ WorkersUp
    /\ wk[w].pc = "leg1_fail"
    /\ LET r == wk[w] IN
       /\ \/ /\ ~cancelled
             /\ row' = RegisterError(row, Wrap("leg 1 failed", r.err))
          \/ UNCHANGED row
       /\ wk' = [wk EXCEPT ![w] = Return(r, r.err)]
    /\ UNCHANGED <<optKind, orders, expired, proc, runs, cancelled,
                   activeTasks, jobChan, fns, sc, ms, exch>>


\* processLeg2 steps 1-3: ParseOptionSymbol, GetOptionStrikes, FindNextStrike
Leg2Chain(w) ==
    /\ WorkersUp
    /\ wk[w].pc = "leg2_chain"
    /\ LET r == wk[w] IN
       \/ \E e \in CallErrs :
            wk' = [wk EXCEPT ![w] =
                     Leg2Return(r, Wrap("failed to fetch option chain", e))]
       \/ /\ ~cancelled
          /\ \E chain \in SUBSET Strikes :
               LET res == FindNextStrike(r.strike, optKind, chain) IN
               wk' = [wk EXCEPT ![w] =
                        IF res.ok
                        THEN [r EXCEPT !.next = res.strike, !.pc = "leg2_mark"]
                        ELSE Leg2Return(r, Wrap("failed to find next strike", res.err))]
    /\ UNCHANGED <<row, optKind, orders, expired, proc, runs, cancelled,
                   activeTasks, jobChan, fns, sc, ms, exch>>

\* processLeg2: GetMarkPrice of the next symbol
Leg2MarkPrice(w) ==
    /\ WorkersUp
    /\ wk[w].pc = "leg2_mark"
    /\ LET r == wk[w] IN
       \/ \E e \in CallErrs :
            wk' = [wk EXCEPT ![w] =
                     Leg2Return(r, Wrap("failed to get mark price for leg2 ("
                                          \o ToString(r.next) \o ")", e))]
       \/ /\ ~cancelled
          /\ wk' = [wk EXCEPT ![w] = [r EXCEPT !.pc = "leg2_order"]]
    /\ UNCHANGED <<row, optKind, orders, expired, proc, runs, cancelled,
                   activeTasks, jobChan, fns, sc, ms, exch>>

\* processLeg2 step 4: PlaceOrder open-{id}-v{version}, limit order, side
\* task.TargetSide, quantity task.CurrentQty; the exchange takes an order
\* link id once; what is not matched on acceptance rests
Leg2PlaceOrder(w) ==
    /\ WorkersUp
    /\ wk[w].pc = "leg2_order"
    /\ LET r == wk[w] IN
       \/ /\ \E e \in CallErrs :
               wk' = [wk EXCEPT ![w] = Leg2Return(r, e)]
          /\ UNCHANGED <<orders, exch>>
       \/ /\ ~cancelled
          /\ LET o == Order("open", r.version, r.next, r.side, r.qty) IN
             /\ orders' = orders \cup {o}
             /\ IF o \in orders
                THEN UNCHANGED exch
                ELSE \E q \in Matched(r.qty) :
                       exch' = [exch EXCEPT !.pos[r.next] = @ + q,
                                            !.rest[r.next].open = @ + (r.qty - q)]
          /\ wk' = [wk EXCEPT ![w] = [r EXCEPT !.nOpen = @ + 1, !.pc = "leg2_sym"]]
    /\ UNCHANGED <<row, optKind, expired, proc, runs, cancelled,
                   activeTasks, jobChan, fns, sc, ms>>

\* processLeg2 step 5: UpdateTaskSymbol(next, qty, task.Version); a failure is
\* logged and processLeg2 returns nil; after a success control falls into
\* the retry loop
Leg2UpdateSymbol(w) ==
    /\ WorkersUp
    /\ wk[w].pc = "leg2_sym"
    /\ LET r == wk[w] IN
       \E o \in StoreOutcomes(r.version) :
         IF o = "ok"
         THEN /\ row' = UpdateTaskSymbol(row, r.next, r.qty)
              /\ wk' = [wk EXCEPT ![w] = [r EXCEPT !.committed = TRUE, !.pc = "loop_check"]]
         ELSE /\ wk' = [wk EXCEPT ![w] = Leg2Return(r, "")]
              /\ UNCHANGED row
    /\ UNCHANGED <<optKind, orders, expired, proc, runs, cancelled,
                   activeTasks, jobChan, fns, sc, ms, exch>>

\* processLeg2, head of the retry loop: ctx.Err() check, then the nested
\* call s.processLeg2(ctx, apiKey, task, log)
RetryLoop(w) ==
    /\ WorkersUp
    /\ wk[w].pc = "loop_check"
    /\ LET r == wk[w] IN
       wk' = [wk EXCEPT ![w] =
                IF cancelled
                THEN Leg2Return(r, ErrCtx)
                ELSE [r EXCEPT !.depth = @ + 1, !.pc = "leg2_chain"]]
    /\ UNCHANGED <<row, optKind, orders, expired, proc, runs, cancelled,
                   activeTasks, jobChan, fns, sc, ms, exch>>

\* processLeg2, retry loop after a failed nested call:
\* select { <-ctx.Done(): return ctx.Err(); <-time.After(3s): continue };
\* err is a variable of the iteration that ends here
RetrySleep(w) ==
    /\ WorkersUp
    /\ wk[w].pc = "loop_sleep"
    /\ LET r == wk[w] IN
       \/ /\ cancelled
          /\ wk' = [wk EXCEPT ![w] = Leg2Return(r, ErrCtx)]
       \/ wk' = [wk EXCEPT ![w] = [r EXCEPT !.pc = "loop_check", !.err = ""]]
    /\ UNCHANGED <<row, optKind, orders, expired, proc, runs, cancelled,
                   activeTasks, jobChan, fns, sc, ms, exch>>

\* ExecuteRoll: processLeg2 returned an error:
\* _ = UpdateTaskState(FAILED, task.Version); return "FATAL: Leg 2 failed ..."
Leg2Fatal(w) ==
    /\ WorkersUp
    /\ wk[w].pc = "leg2_fatal"
    /\ LET r == wk[w] IN
       /\ \E o \in StoreOutcomes(r.version) :
            IF o = "ok"
            THEN row' = UpdateTaskState(row, TaskStateFailed)
            ELSE UNCHANGED row
       /\ wk' = [wk EXCEPT ![w] = Return(r, Wrap(Leg2FatalText, r.err))]
    /\ UNCHANGED <<optKind, orders, expired, proc, runs, cancelled,
                   activeTasks, jobChan, fns, sc, ms, exch>>

\* ---- the system ---------------------------------------------------------

Next ==
    \/ Kill
    \/ Restart
    \/ Cancel
    \/ Expire
    \/ ManagerRun
    \/ \E p \in Prices : Dispatch(p)
    \/ ManagerStop
    \/ \E w \in Workers : WorkerTake(w)
    \/ \E w \in Workers : WorkerExit(w)
    \/ \E w \in Workers : ExecuteRoll(w)
    \/ \E w \in Workers : Leg1Probe(w)
    \/ \E w \in Workers : Leg1Complete(w)
    \/ \E w \in Workers : Leg1MarkPrice(w)
    \/ \E w \in Workers : Leg1PlaceOrder(w)
    \/ \E w \in Workers : Leg1Checkpoint(w)
    \/ \E w \in Workers : HandleError(w)
    \/ \E w \in Workers : Leg2Chain(w)
    \/ \E w \in Workers : Leg2MarkPrice(w)
    \/ \E w \in Workers : Leg2PlaceOrder(w)
    \/ \E w \in Workers : Leg2UpdateSymbol(w)
    \/ \E w \in Workers : RetryLoop(w)
    \/ \E w \in Workers : RetrySleep(w)
    \/ \E w \in Workers : Leg2Fatal(w)

Spec == Init /\ [][Next]_vars

\* ---- FindNextStrike on bounded inputs -----------------------------------

FnsStrikes == 1..MaxFnsStrike

InitFns ==
    /\ row = [status |-> TaskStateIdle, version |-> 1, strike |-> InitStrike,
              qty |-> InitQty, lastError |-> ""]
    /\ optKind = "C"
    /\ orders = {}
    /\ expired = FALSE
    /\ proc = "boot"
    /\ runs = 1
    /\ cancelled = FALSE
    /\ activeTasks = <<>>
    /\ jobChan = <<>>
    /\ wk = [w \in Workers |-> IdleWorker]
    /\ sc = ScIdle
    /\ ms = MsIdle
    /\ exch = Exchange(InitStrike, InitQty, PositionSide, {"filled"})
    /\ \E s \in FnsStrikes, k \in OptKinds, c \in SUBSET FnsStrikes :
         fns = [phase |-> "input", strike |-> s, kind |-> k, chain |-> c,
                out |-> [ok |-> FALSE, strike |-> 0, err |-> ""]]

\* currentSym.FindNextStrike(strikes) applied to the chosen input
FnsApply ==
    /\ fns.phase = "input"
    /\ fns' = [fns EXCEPT !.phase = "done",
                          !.out = FindNextStrike(fns.strike, fns.kind, fns.chain)]
    /\ UNCHANGED <<sysVars, sc, ms>>

NextFns == FnsApply

SpecFns == InitFns /\ [][NextFns]_vars


\* ---- the task store on bounded inputs -----------------------------------

TaskStates == {TaskStateIdle, TaskStateRollInitiated, TaskStateLeg1Closed,
               TaskStateCompleted, TaskStateFailed}

\* messages handed to RegisterError and SaveError
StoreMsgs ==
    {Wrap("leg 1 failed", e) : e \in ExchErrs \cup StoreErrs("dberr") \cup {ErrLock}}
      \cup {"bybit api error: 502 Bad Gateway", "Timeout"}

\* the error of a failed ExecContext, as RegisterError and SaveError return it
DriverErrs == IF cancelled THEN {ErrCtx} ELSE DbCauses

\* a row as some earlier history left it, and one call with a live or
\* cancelled ctx: UpdateTaskState(ctx, id, newState, version),
\* RegisterError(ctx, id, err) or SaveError(ctx, id, errMessage)
InitStore ==
    /\ \E st \in TaskStates, ver \in 1..MaxVersion, le \in {"", ErrDeadline} :
         row = [status |-> st, version |-> ver, strike |-> InitStrike,
                qty |-> InitQty, lastError |-> le]
    /\ optKind = "C"
    /\ orders = {}
    /\ expired = FALSE
    /\ proc = "boot"
    /\ runs = 1
    /\ cancelled \in BOOLEAN
    /\ activeTasks = <<>>
    /\ jobChan = <<>>
    /\ wk = [w \in Workers |-> IdleWorker]
    /\ fns = FnsIdle
    /\ ms = MsIdle
    /\ exch = Exchange(InitStrike, InitQty, PositionSide, {"filled"})
    /\ \/ \E st \in TaskStates, ver \in 0..(MaxVersion + 1) :
            sc = [ScIdle EXCEPT !.phase = "input", !.op = "update_state",
                                !.arg = st, !.v = ver]
       \/ \E op \in {"register_error", "save_error"}, msg \in StoreMsgs :
            sc = [ScIdle EXCEPT !.phase = "input", !.op = op, !.arg = msg]

\* TaskRepository.UpdateTaskState: the UPDATE, RowsAffected, the error returned
StoreCall ==
    /\ sc.phase = "input" /\ sc.op = "update_state"
    /\ \E o \in StoreOutcomes(sc.v) :
         \E e \in (IF o = "ok" THEN {""} ELSE StoreErrs(o)) :
           /\ row' = IF o = "ok" THEN UpdateTaskState(row, sc.arg) ELSE row
           /\ sc' = [sc EXCEPT !.phase = "done", !.before = <<row>>,
                               !.err = e]
    /\ UNCHANGED <<optKind, orders, expired, proc, runs, cancelled,
                   activeTasks, jobChan, wk, fns, ms, exch>>

\* TaskRepository.RegisterError called on its own: the UPDATE or its error
StoreRegisterError ==
    /\ sc.phase = "input" /\ sc.op = "register_error"
    /\ \/ /\ ~cancelled
          /\ row' = RegisterError(row, sc.arg)
          /\ sc' = [sc EXCEPT !.phase = "done", !.before = <<row>>]
       \/ /\ UNCHANGED row
          /\ \E e \in DriverErrs :
               sc' = [sc EXCEPT !.phase = "done", !.before = <<row>>, !.err = e]
    /\ UNCHANGED <<optKind, orders, expired, proc, runs, cancelled,
                   activeTasks, jobChan, wk, fns, ms, exch>>

\* TaskRepository.SaveError called on its own: the UPDATE or its error
StoreSaveError ==
    /\ sc.phase = "input" /\ sc.op = "save_error"
    /\ \/ /\ ~cancelled
          /\ row' = SaveError(row, sc.arg)
          /\ sc' = [sc EXCEPT !.phase = "done", !.before = <<row>>]
       \/ /\ UNCHANGED row
          /\ \E e \in DriverErrs :
               sc' = [sc EXCEPT !.phase = "done", !.before = <<row>>, !.err = e]
    /\ UNCHANGED <<optKind, orders, expired, proc, runs, cancelled,
                   activeTasks, jobChan, wk, fns, ms, exch>>

NextStore == StoreCall \/ StoreRegisterError \/ StoreSaveError

SpecStore == InitStore /\ [][NextStore]_vars


\* ---- one run of the process without faults --------------------------------
\* Manager.Run and the worker pool from start-up on, with no signal, no kill
\* and no expiry: price events against the job queue and the workers

NextQueue ==
    \/ ManagerRun
    \/ \E p \in Prices : Dispatch(p)
    \/ \E w \in Workers : WorkerTake(w)
    \/ \E w \in Workers : ExecuteRoll(w)
    \/ \E w \in Workers : Leg1Probe(w)
    \/ \E w \in Workers : Leg1Complete(w)
    \/ \E w \in Workers : Leg1MarkPrice(w)
    \/ \E w \in Workers : Leg1PlaceOrder(w)
    \/ \E w \in Workers : Leg1Checkpoint(w)
    \/ \E w \in Workers : HandleError(w)
    \/ \E w \in Workers : Leg2Chain(w)
    \/ \E w \in Workers : Leg2MarkPrice(w)
    \/ \E w \in Workers : Leg2PlaceOrder(w)
    \/ \E w \in Workers : Leg2UpdateSymbol(w)
    \/ \E w \in Workers : RetryLoop(w)
    \/ \E w \in Workers : RetrySleep(w)
    \/ \E w \in Workers : Leg2Fatal(w)

SpecQueue == Init /\ [][NextQueue]_vars


\* ---- successive rolls of one task -----------------------------------------
\* The task is created one strike lower, so that two strikes lie above its
\* option and it can be rolled twice; the process is killed and restarted
\* (every start reloads the snapshot), with no signal and no expiry.

InitAttempts ==
    /\ row = [status |-> TaskStateIdle, version |-> 1, strike |-> InitStrike - 1,
              qty |-> InitQty, lastError |-> ""]
    /\ optKind \in OptKinds
    /\ orders = {}
    /\ expired = FALSE
    /\ proc = "boot"
    /\ runs = 1
    /\ cancelled = FALSE
    /\ activeTasks = <<>>
    /\ jobChan = <<>>
    /\ wk = [w \in Workers |-> IdleWorker]
    /\ fns = FnsIdle
    /\ sc = ScIdle
    /\ ms = MsIdle
    /\ exch = Exchange(InitStrike - 1, InitQty, PositionSide, {"filled"})

NextAttempts ==
    \/ Kill
    \/ Restart
    \/ ManagerRun
    \/ \E p \in Prices : Dispatch(p)
    \/ \E w \in Workers : WorkerTake(w)
    \/ \E w \in Workers : ExecuteRoll(w)
    \/ \E w \in Workers : Leg1Probe(w)
    \/ \E w \in Workers : Leg1Complete(w)
    \/ \E w \in Workers : Leg1MarkPrice(w)
    \/ \E w \in Workers : Leg1PlaceOrder(w)
    \/ \E w \in Workers : Leg1Checkpoint(w)
    \/ \E w \in Workers : HandleError(w)
    \/ \E w \in Workers : Leg2Chain(w)
    \/ \E w \in Workers : Leg2MarkPrice(w)
    \/ \E w \in Workers : Leg2PlaceOrder(w)
    \/ \E w \in Workers : Leg2UpdateSymbol(w)
    \/ \E w \in Workers : RetryLoop(w)
    \/ \E w \in Workers : RetrySleep(w)
    \/ \E w \in Workers : Leg2Fatal(w)

SpecAttempts == InitAttempts /\ [][NextAttempts]_vars


\* ---- ShouldRoll on bounded inputs -----------------------------------------

\* underlying prices around the trigger, the trigger itself included
ShouldPrices == 0..(MaxStrike + 2)

\* a task in any status, Call or Put, and one call ShouldRoll(price)
InitShould ==
    /\ row = [status |-> TaskStateIdle, version |-> 1, strike |-> InitStrike,
              qty |-> InitQty, lastError |-> ""]
    /\ optKind \in OptKinds
    /\ orders = {}
    /\ expired = FALSE
    /\ proc = "boot"
    /\ runs = 1
    /\ cancelled = FALSE
    /\ activeTasks = <<>>
    /\ jobChan = <<>>
    /\ wk = [w \in Workers |-> IdleWorker]
    /\ fns = FnsIdle
    /\ ms = MsIdle
    /\ exch = Exchange(InitStrike, InitQty, PositionSide, {"filled"})
    /\ \E st \in TaskStates, p \in ShouldPrices :
         sc = [ScIdle EXCEPT !.phase = "input", !.op = "should_roll",
                             !.arg = st, !.v = p]

\* task.ShouldRoll(price) applied to the chosen input
ShouldRollCall ==
    /\ sc.phase = "input"
    /\ sc.op = "should_roll"
    /\ sc' = [sc EXCEPT !.phase = "done", !.ok = ShouldRoll(sc.arg, optKind, sc.v)]
    /\ UNCHANGED <<sysVars, fns, ms>>

NextShould == ShouldRollCall

SpecShould == InitShould /\ [][NextShould]_vars


\* ---- ExecuteRoll on bounded inputs ---------------------------------------

\* the rows one roll of the task passes through (create, lock, checkpoint)
\* and the rows it can end in (symbol swapped, or FAILED by hand or by Leg 2)
RollHistory(last) ==
    LET r1 == [status |-> TaskStateIdle, version |-> 1, strike |-> InitStrike,
               qty |-> InitQty, lastError |-> ""]
        r2 == UpdateTaskState(r1, TaskStateRollInitiated)
        r3 == UpdateTaskState(r2, TaskStateLeg1Closed)
    IN <<r1, r2, r3,
         IF last = "swapped" THEN UpdateTaskSymbol(r3, InitStrike + 1, InitQty)
         ELSE UpdateTaskState(r3, TaskStateFailed)>>

\* Manager.worker has received a job whose task snapshot was read from the
\* store at some point of the roll history (GetActiveTasks), the row is at
\* the same or a later point, and ExecuteRoll is about to run on it.
SagaInputs ==
    /\ optKind \in OptKinds
    /\ orders = {}
    /\ expired = FALSE
    /\ proc = "running"
    /\ runs = 1
    /\ cancelled = FALSE
    /\ activeTasks = <<>>
    /\ jobChan = <<>>
    /\ fns = FnsIdle
    /\ ms = MsIdle
    /\ \E last \in {"swapped", "failed"}, i \in 1..4, j \in 1..4, p \in Prices :
         LET h == RollHistory(last) IN
         /\ i <= j
         /\ GetActiveTasks(h[i]) # <<>>
         /\ row = h[j]
         /\ sc = [ScIdle EXCEPT !.phase = "saga", !.op = "ExecuteRoll",
                                !.arg = p,
                                !.v = h[j].version, !.before = <<h[j]>>]
         /\ wk = [w \in Workers |->
                    IF w = 1
                    THEN LET t == GetActiveTasks(h[i])[1] IN
                         [IdleWorker EXCEPT !.pc = "exec", !.status = t.status,
                                            !.version = t.version, !.snap = t.version,
                                            !.strike = t.strike, !.qty = t.qty,
                                            !.price = p]
                    ELSE IdleWorker]

\* the position in the row's option at that point of the history: held
\* until Leg 1 has closed it, and again once Leg 2 has opened the next one
Held(qty) ==
    IF row.status \in {TaskStateIdle, TaskStateRollInitiated} THEN qty ELSE 0

\* ... with the task's position as CreateTask recorded it: InitQty contracts
\* sold, and orders that execute in full
InitSaga ==
    /\ SagaInputs
    /\ exch = Exchange(row.strike, Held(InitQty), PositionSide, {"filled"})

NextSaga ==
    \/ \E w \in Workers : ExecuteRoll(w)
    \/ \E w \in Workers : Leg1Probe(w)
    \/ \E w \in Workers : Leg1Complete(w)
    \/ \E w \in Workers : Leg1MarkPrice(w)
    \/ \E w \in Workers : Leg1PlaceOrder(w)
    \/ \E w \in Workers : Leg1Checkpoint(w)
    \/ \E w \in Workers : HandleError(w)
    \/ \E w \in Workers : Leg2Chain(w)
    \/ \E w \in Workers : Leg2MarkPrice(w)
    \/ \E w \in Workers : Leg2PlaceOrder(w)
    \/ \E w \in Workers : Leg2UpdateSymbol(w)
    \/ \E w \in Workers : RetryLoop(w)
    \/ \E w \in Workers : RetrySleep(w)
    \/ \E w \in Workers : Leg2Fatal(w)

SpecSaga == InitSaga /\ [][NextSaga]_vars


\* ---- ExecuteRoll under cancellation ---------------------------------------
\* ExecuteRoll on the same inputs, with the top-level context cancelled at
\* any point of the execution

NextCancel ==
    \/ Cancel
    \/ \E w \in Workers : ExecuteRoll(w)
    \/ \E w \in Workers : Leg1Probe(w)
    \/ \E w \in Workers : Leg1Complete(w)
    \/ \E w \in Workers : Leg1MarkPrice(w)
    \/ \E w \in Workers : Leg1PlaceOrder(w)
    \/ \E w \in Workers : Leg1Checkpoint(w)
    \/ \E w \in Workers : HandleError(w)
    \/ \E w \in Workers : Leg2Chain(w)
    \/ \E w \in Workers : Leg2MarkPrice(w)
    \/ \E w \in Workers : Leg2PlaceOrder(w)
    \/ \E w \in Workers : Leg2UpdateSymbol(w)
    \/ \E w \in Workers : RetryLoop(w)
    \/ \E w \in Workers : RetrySleep(w)
    \/ \E w \in Workers : Leg2Fatal(w)

SpecCancel == InitSaga /\ [][NextCancel]_vars

\* ---- ExecuteRoll and the position on the exchange --------------------------
\* The same executions with the position as the exchange holds it: its
\* quantity need not be the current_qty of the task, it is long or short,
\* and an accepted limit order matches in full, in part or not at all, its
\* remainder resting in the book until the market reaches it.

InitPosition ==
    /\ SagaInputs
    /\ \E qty \in 1..MaxQty, side \in {SideBuy, SideSell} :
         exch = Exchange(row.strike, Held(qty), side, MatchOutcomes)

\* the exchange executes q contracts of the close order resting at strike s:
\* reduce-only, so never more than is held
RestingCloseFills(s) ==
    /\ exch.rest[s].close > 0 /\ exch.pos[s] > 0
    /\ \E q \in 1..exch.rest[s].close :
         /\ q <= exch.pos[s]
         /\ exch' = [exch EXCEPT !.pos[s] = @ - q, !.rest[s].close = @ - q]
    /\ UNCHANGED <<row, optKind, orders, expired, proc, runs, cancelled,
                   activeTasks, jobChan, wk, fns, sc, ms>>

\* the exchange executes q contracts of an open order resting at strike s
RestingOpenFills(s) ==
    /\ exch.rest[s].open > 0
    /\ \E q \in 1..exch.rest[s].open :
         exch' = [exch EXCEPT !.pos[s] = @ + q, !.rest[s].open = @ - q]
    /\ UNCHANGED <<row, optKind, orders, expired, proc, runs, cancelled,
                   activeTasks, jobChan, wk, fns, sc, ms>>

NextPosition ==
    \/ NextSaga
    \/ \E s \in Strikes : RestingCloseFills(s)
    \/ \E s \in Strikes : RestingOpenFills(s)

SpecPosition == InitPosition /\ [][NextPosition]_vars

\* ---- the worker pool shared with other tasks --------------------------------
\* The workers also receive the jobs of the other tasks of the snapshot.  Of
\* those only what they do to the pool is modelled: a worker that has rolled
\* another task is in processLeg2's retry loop for as long as the nested
\* processLeg2 fails.

\* Manager.worker receives a job of another task; ExecuteRoll rolls it and,
\* UpdateTaskSymbol having succeeded, enters the retry loop
OtherTaskRoll(w) ==
    /\ WorkersUp
    /\ ~cancelled
    /\ wk[w].pc = "idle"
    /\ \A v \in Workers : v < w => wk[v].pc # "idle"
    /\ wk' = [wk EXCEPT ![w] = [IdleWorker EXCEPT !.pc = "other_loop"]]
    /\ UNCHANGED <<row, optKind, orders, expired, proc, runs, cancelled,
                   activeTasks, jobChan, fns, sc, ms, exch>>

\* the retry loop for the other task: the nested processLeg2 returns nil
\* and ExecuteRoll returns, or it fails and the loop goes to sleep
OtherTaskRetry(w) ==
    /\ WorkersUp
    /\ wk[w].pc = "other_loop"
    /\ \/ wk' = [wk EXCEPT ![w] = IdleWorker]
       \/ wk' = [wk EXCEPT ![w] = [@ EXCEPT !.pc = "other_sleep"]]
    /\ UNCHANGED <<row, optKind, orders, expired, proc, runs, cancelled,
                   activeTasks, jobChan, fns, sc, ms, exch>>

\* <-time.After(3 * time.Second): next iteration
OtherTaskSleep(w) ==
    /\ WorkersUp
    /\ wk[w].pc = "other_sleep"
    /\ wk' = [wk EXCEPT ![w] = [@ EXCEPT !.pc = "other_loop"]]
    /\ UNCHANGED <<row, optKind, orders, expired, proc, runs, cancelled,
                   activeTasks, jobChan, fns, sc, ms, exch>>

NextPool ==
    \/ NextQueue
    \/ \E w \in Workers : OtherTaskRoll(w)
    \/ \E w \in Workers : OtherTaskRetry(w)
    \/ \E w \in Workers : OtherTaskSleep(w)

SpecPool == Init /\ [][NextPool]_vars


\* ---- MarketStream and the dispatcher's subscriptions ---------------------
\* ms.store       underlying symbols of the active tasks in the store
\* ms.snap        underlying symbols of the dispatcher's snapshot
\* ms.run         Manager.Run: "off", "loaded" (GetActiveTasks has returned),
\*                "running" (Subscribe has returned)
\* ms.symbols     Manager.Run's activeSymbols
\* ms.activeSubs  MarketStream.activeSubs
\* ms.pc          maintainConnection: "off", "top", "dial", "subscribe",
\*                "listen", "closing", "sleep"
\* ms.subs        maintainConnection's local copy of activeSubs
\* ms.conn        0 for s.conn == nil, else the number of the connection
\* ms.live        topics the exchange has been asked for on ms.conn
\* ms.mu          holder of MarketStream.mu across steps: 0 for nobody, else
\*                the reload goroutine inside AddSubscriptions
\* ms.out         the output channel of Subscribe
\* ms.created     tasks created by the handler so far
\* ms.rl[g]       the g-th "go ReloadTasks": pc "off", "read", "dedupe",
\*                "lock", "send", "done"; the argument, the new symbols and
\*                the result of its AddSubscriptions call; at: where
\*                maintainConnection was when the call looked at s.conn

Syms == 1..NumSyms

InitStream ==
    /\ row = [status |-> TaskStateIdle, version |-> 1, strike |-> InitStrike,
              qty |-> InitQty, lastError |-> ""]
    /\ optKind = "C"
    /\ orders = {}
    /\ expired = FALSE
    /\ proc = "boot"
    /\ runs = 1
    /\ cancelled = FALSE
    /\ activeTasks = <<>>
    /\ jobChan = <<>>
    /\ wk = [w \in Workers |-> IdleWorker]
    /\ fns = FnsIdle
    /\ sc = ScIdle
    /\ \E S \in SUBSET Syms : ms = [MsIdle EXCEPT !.store = S]
    /\ exch = Exchange(InitStrike, InitQty, PositionSide, {"filled"})

\* Manager.Run: GetActiveTasks and the unique underlying symbols of the
\* tasks it returned
MsLoad ==
    /\ ms.run = "off"
    /\ ms' = [ms EXCEPT !.snap = ms.store, !.symbols = ms.store, !.run = "loaded"]
    /\ UNCHANGED <<sysVars, fns, sc>>

\* MarketStream.Subscribe(activeSymbols): s.activeSubs = symbols, whatever
\* it held, and go maintainConnection
MsSubscribe ==
    /\ ms.run = "loaded"
    /\ ms' = [ms EXCEPT !.activeSubs = ms.symbols, !.pc = "top", !.run = "running"]
    /\ UNCHANGED <<sysVars, fns, sc>>

\* Handler.processStep: CreateTask for a task on underlying symbol y, then
\* go h.manager.ReloadTasks(...), whatever Manager.Run and earlier reloads
\* are doing
HandlerCreateTask(y) ==
    /\ ms.created < MaxCreates
    /\ ms' = [ms EXCEPT !.store = @ \cup {y}, !.created = @ + 1,
                        !.rl[ms.created + 1].pc = "read"]
    /\ UNCHANGED <<sysVars, fns, sc>>

\* ReloadTasks: re-read the active tasks, replace the snapshot, compute the
\* set of underlying symbols and call AddSubscriptions with it
ReloadRead(g) ==
    /\ ms.rl[g].pc = "read"
    /\ ms' = [ms EXCEPT !.snap = ms.store,
                        !.rl[g] = [RlOff EXCEPT !.pc = "dedupe", !.symbols = ms.store]]
    /\ UNCHANGED <<sysVars, fns, sc>>

\* AddSubscriptions of reload g returns e to ReloadTasks, which returns to
\* the handler's goroutine
AddReturn(m, g, e) ==
    [m EXCEPT !.rl[g].pc = "done", !.rl[g].symbols = {}, !.rl[g].ret = e,
              !.rl[g].at = m.pc]

\* AddSubscriptions under subsMu: dedupe against activeSubs and append
AddDedupe(g) ==
    /\ ms.rl[g].pc = "dedupe"
    /\ LET newSubs == ms.rl[g].symbols \ ms.activeSubs
           m == [ms EXCEPT !.activeSubs = @ \cup newSubs, !.rl[g].newSubs = newSubs]
       IN ms' = IF newSubs = {} THEN AddReturn(m, g, "nil")
                ELSE [m EXCEPT !.rl[g].pc = "lock"]
    /\ UNCHANGED <<sysVars, fns, sc>>

\* AddSubscriptions: s.mu.Lock(); defer s.mu.Unlock(); with a connection it
\* calls sendSubscribe(newSubs) while holding the mutex
AddLock(g) ==
    /\ ms.rl[g].pc = "lock"
    /\ ms.mu = 0
    /\ ms' = IF ms.conn = 0 THEN AddReturn(ms, g, "nil")
             ELSE [ms EXCEPT !.mu = g, !.rl[g].pc = "send", !.rl[g].at = ms.pc]
    /\ UNCHANGED <<sysVars, fns, sc>>

\* maintainConnection, top of the loop: stopChan is never closed (no method
\* closes it), so the default branch runs: copy activeSubs under subsMu
McTop ==
    /\ ms.pc = "top"
    /\ ms' = [ms EXCEPT !.subs = ms.activeSubs, !.pc = "dial"]
    /\ UNCHANGED <<sysVars, fns, sc>>

\* connectAndListen: Dial; on success s.conn = conn under the mutex; with
\* no symbols the subscribe frame is skipped
McDial ==
    /\ ms.pc = "dial"
    /\ ms.dials < MaxDials
    /\ \/ ms' = [ms EXCEPT !.dials = @ + 1, !.pc = "sleep"]
       \/ /\ ms.mu = 0
          /\ ms' = [ms EXCEPT !.dials = @ + 1, !.conn = ms.dials + 1,
                              !.live = {}, !.pingFailed = FALSE,
                              !.pc = IF ms.subs = {} THEN "listen" ELSE "subscribe"]
    /\ UNCHANGED <<sysVars, fns, sc>>

\* sendSubscribe(symbols), called by connectAndListen (c = 0) or by the
\* AddSubscriptions of reload c: s.mu.Lock(), WriteJSON of one frame with
\* the symbols, Unlock, and the caller's next step
SendSubscribe(c) ==
    /\ \/ c = 0 /\ ms.pc = "subscribe"
       \/ c \in Reloads /\ ms.rl[c].pc = "send"
    /\ ms.mu = 0
    /\ \E ok \in BOOLEAN :
         LET symbols == IF c = 0 THEN ms.subs ELSE ms.rl[c].newSubs
             m == IF ok THEN [ms EXCEPT !.live = @ \cup symbols] ELSE ms
         IN ms' = IF c = 0
                  THEN [m EXCEPT !.pc = IF ok THEN "listen" ELSE "closing"]
                  ELSE AddReturn(m, c, IF ok THEN "nil" ELSE "write error")
    /\ UNCHANGED <<sysVars, fns, sc>>

\* a plain send "out <- updateEvent": it waits while the channel is full
OutSendBlocking(out, y) ==
    IF Len(out) < OutCap THEN {Append(out, y)} ELSE {}

\* select { case out <- updateEvent: default: }: the channel contents the
\* reader can go on with; a full channel is left as it is and the event is
\* gone
OutSend(out, y) ==
    IF Len(out) < OutCap THEN {Append(out, y)} ELSE {out}

\* connectAndListen, read loop: ReadMessage fails, or a ticker of a
\* subscribed symbol arrives and is put on the output channel unless full
McRead ==
    /\ ms.pc = "listen"
    /\ \/ ms' = [ms EXCEPT !.pc = "closing"]
       \/ \E y \in ms.live : \E q \in OutSend(ms.out, y) :
            ms' = [ms EXCEPT !.out = q]
    /\ UNCHANGED <<sysVars, fns, sc>>

\* heartbeat, case <-ticker.C: under the mutex, ping; a failed ping is logged
Heartbeat ==
    /\ ms.pc = "listen"
    /\ ms.mu = 0
    /\ ms.conn # 0
    /\ \E ok \in BOOLEAN :
         ms' = IF ok THEN ms ELSE [ms EXCEPT !.pingFailed = TRUE]
    /\ UNCHANGED <<sysVars, fns, sc>>

\* connectAndListen returns: cancel() stops the heartbeat, the deferred
\* function closes the socket under the mutex
McClose ==
    /\ ms.pc = "closing"
    /\ ms.mu = 0
    /\ ms' = [ms EXCEPT !.conn = 0, !.live = {}, !.pingFailed = FALSE,
                        !.pc = "sleep"]
    /\ UNCHANGED <<sysVars, fns, sc>>

\* maintainConnection: time.Sleep(reconnectDelay), next iteration
McSleep ==
    /\ ms.pc = "sleep"
    /\ ms' = [ms EXCEPT !.pc = "top"]
    /\ UNCHANGED <<sysVars, fns, sc>>

\* Manager.Run, case event := <-priceUpdates
MsConsume ==
    /\ ms.out # <<>>
    /\ ms' = [ms EXCEPT !.out = Tail(@)]
    /\ UNCHANGED <<sysVars, fns, sc>>

NextStream ==
    \/ MsLoad
    \/ MsSubscribe
    \/ \E y \in Syms : HandlerCreateTask(y)
    \/ \E g \in Reloads : ReloadRead(g)
    \/ \E g \in Reloads : AddDedupe(g)
    \/ \E g \in Reloads : AddLock(g)
    \/ \E c \in {0} \cup Reloads : SendSubscribe(c)
    \/ McTop
    \/ McDial
    \/ McRead
    \/ Heartbeat
    \/ McClose
    \/ McSleep
    \/ MsConsume

SpecStream == InitStream /\ [][NextStream]_vars

\* the stream as Manager.Run starts it, for every set of initial symbols,
\* with no task created while it runs: connection loop, reader, heartbeat
\* and the dispatcher as consumer
NextReader ==
    \/ MsLoad
    \/ MsSubscribe
    \/ SendSubscribe(0)
    \/ McTop
    \/ McDial
    \/ McRead
    \/ Heartbeat
    \/ McClose
    \/ McSleep
    \/ MsConsume

SpecReader == InitStream /\ [][NextReader]_vars


\* ---- properties ---------------------------------------------------------

Started(w) == wk[w].pc \notin {"idle", "exited"} \/ wk[w].ret # "none"
InFlight(w) == wk[w].pc \notin {"idle", "exited"}
Terminal == {TaskStateCompleted, TaskStateFailed}
Leg2StepErrs == ExchErrs \cup {ErrNoHigher, ErrHighest}
\* the error e is, or wraps, one of the errors in S
Carries(e, S) == \E m \in S : Contains(e, m)

\* C1: at most one saga execution is past the IDLE->ROLL_INITIATED
\* transition and not yet returned; and of the executions that worked on
\* snapshots of the same version at most one acquired the lock, and at most
\* one submitted a close order.
C1_LockExclusive ==
    /\ Cardinality({w \in Workers : InFlight(w) /\ wk[w].locked}) <= 1
    /\ \A w1, w2 \in Workers :
         (w1 # w2 /\ Started(w1) /\ Started(w2) /\ wk[w1].snap = wk[w2].snap)
           => /\ ~(wk[w1].locked /\ wk[w2].locked)
              /\ ~(wk[w1].nClose > 0 /\ wk[w2].nClose > 0)

\* C1 witness: a worker holds the lock and is in its saga while another
\* worker is about to try the locking transition from the same snapshot
C1_Witness ==
    \E w1, w2 \in Workers :
      /\ w1 # w2
      /\ InFlight(w1) /\ wk[w1].locked /\ wk[w1].nClose > 0
      /\ wk[w2].pc = "exec" /\ wk[w2].snap = wk[w1].snap
      /\ ShouldRoll(wk[w2].status, optKind, wk[w2].price)

\* C2: a step of an execution whose close order was accepted never turns
\* the persisted status into FAILED.
C2_NoFailedAfterLeg1 ==
    [][\A w \in Workers :
         (wk[w].nClose > 0 /\ wk'[w] # wk[w])
           => ~(row.status # TaskStateFailed /\ row'.status = TaskStateFailed)]_vars

\* C3: when an execution that acquired the lock or resumed from LEG1_CLOSED
\* returns nil, the row is IDLE with a new symbol or terminal.
C3_NoSilentNaked ==
    [][\A w \in Workers :
         (/\ InFlight(w)
          /\ wk'[w].pc = "idle" /\ wk'[w].ret = "nil"
          /\ (wk'[w].locked \/ wk'[w].recovery))
           => \/ row'.status = TaskStateIdle /\ row'.strike # wk'[w].strike
              \/ row'.status \in Terminal]_vars

\* C4: after a restart a task that was left in the middle of a roll is being
\* worked on, or some price tick can still put it on the job queue.
C4_RecoveryFidelity ==
    (proc = "running" /\ runs > 1
       /\ row.status \in {TaskStateRollInitiated, TaskStateLeg1Closed})
      => \/ \E w \in Workers : InFlight(w)
         \/ jobChan # <<>>
         \/ \E p \in Prices : Affected(activeTasks, p) # <<>>

\* C5: when the dispatcher loop runs with a task that was loaded in
\* LEG1_CLOSED and is still persisted so, a job for it is queued or a worker
\* has resumed it at Leg 2.
C5_RecoveryScan ==
    (/\ proc = "running"
     /\ row.status = TaskStateLeg1Closed
     /\ \E i \in 1..Len(activeTasks) : activeTasks[i].status = TaskStateLeg1Closed)
      => \/ \E i \in 1..Len(jobChan) : jobChan[i].task.status = TaskStateLeg1Closed
         \/ \E w \in Workers : wk[w].recovery

\* C6: ExecuteRoll never hands a failure of a Leg 2 step (chain query,
\* next-strike selection, mark price, open order) back to its caller; the
\* only error Leg 2 ends with is the cancellation of the context.
C6_Leg2Retry ==
    \A w \in Workers :
      (/\ wk[w].pc = "idle"
       /\ wk[w].gate = "none"
       /\ wk[w].nClose > 0 \/ wk[w].recovery)
        => ~Carries(wk[w].ret, Leg2StepErrs)

\* C7: an execution that took the expiry gate submits no order.
C7_ExpiryGate ==
    \A w \in Workers :
      wk[w].gate = "expired" => wk[w].nClose = 0 /\ wk[w].nOpen = 0

\* C8: an execution whose position probe reported quantity zero submits no
\* order.
C8_VanishedPosition ==
    \A w \in Workers :
      wk[w].gate = "vanished" => wk[w].nClose = 0 /\ wk[w].nOpen = 0

\* the next-strike rule as stated: the neighbour above (Call) or below (Put)
\* in the ascending chain, the nearest strictly greater / smaller strike
\* when the current strike is absent, an error when there is none
NextStrikeRule(strike, kind, chain) ==
    LET cand == IF kind = "C" THEN {x \in chain : x > strike}
                ELSE {x \in chain : x < strike}
    IN IF cand = {} THEN [ok |-> FALSE, strike |-> 0]
       ELSE [ok |-> TRUE,
             strike |-> IF kind = "C"
                        THEN CHOOSE x \in cand : \A y \in cand : x <= y
                        ELSE CHOOSE x \in cand : \A y \in cand : x >= y]

\* C9: FindNextStrike returns what the next-strike rule says, for Calls
\* and for Puts.
C9_NextStrike ==
    fns.phase = "done" =>
      LET want == NextStrikeRule(fns.strike, fns.kind, fns.chain) IN
      /\ fns.out.ok = want.ok
      /\ fns.out.ok => fns.out.strike = want.strike

\* C10: an execution whose symbol swap committed has submitted one close
\* order and one open order, and submits nothing after the commit.
C10_TwoOrders ==
    \A w \in Workers :
      wk[w].committed => wk[w].nClose <= 1 /\ wk[w].nOpen <= 1

\* the symbol swap of an execution that started from the version-1 snapshot
\* and whose lock and checkpoint both committed
HappyCommit(w) ==
    /\ wk[w].pc = "leg2_sym" /\ wk[w].depth = 0
    /\ wk[w].snap = 1 /\ wk[w].locked /\ wk[w].gate = "none"
    /\ row.status = TaskStateLeg1Closed
    /\ row' # row

\* C11 as stated: on the happy path the close order carries version 2, the
\* open order version 4, and the final row is IDLE with the next-strike
\* symbol, the same quantity and version 5.
C11_HappyPathAsStated ==
    [][\A w \in Workers :
         HappyCommit(w)
           => /\ Order("close", 2, InitStrike, SideBuy, InitQty) \in orders
              /\ Order("open", 4, wk[w].next, SideSell, InitQty) \in orders
              /\ row'.status = TaskStateIdle /\ row'.strike = wk[w].next
              /\ row'.qty = InitQty /\ row'.version = 5]_vars

\* C11 amended: on the happy path the close order carries version 2, the
\* open order version 3, and the final row is IDLE with the next-strike
\* symbol (the symbol the open order was placed on), the same quantity and
\* version 4: the symbol swap writes that row, and nothing changes it while
\* the execution that committed it, or the record of its return, is there.
C11_HappyPathVersions ==
    [][\A w \in Workers :
         /\ HappyCommit(w)
              => /\ Order("close", 2, InitStrike, SideBuy, InitQty) \in orders
                 /\ Order("open", 3, wk[w].next, SideSell, InitQty) \in orders
                 /\ row'.status = TaskStateIdle /\ row'.strike = wk[w].next
                 /\ row'.qty = InitQty /\ row'.version = 4
                 /\ row'.lastError = ""
         /\ (wk[w].committed /\ wk[w].snap = 1) => row' = row]_vars

\* C11 witness: an execution from the version-1 snapshot has committed its
\* symbol swap and returned nil, with its two orders on the exchange
C11_Witness ==
    \E w \in Workers :
      /\ wk[w].pc = "idle" /\ wk[w].ret = "nil"
      /\ wk[w].committed /\ wk[w].snap = 1 /\ wk[w].gate = "none"
      /\ row.status = TaskStateIdle /\ row.version = 4 /\ row.qty = InitQty
      /\ row.strike # InitStrike
      /\ Order("close", 2, InitStrike, SideBuy, InitQty) \in orders
      /\ Order("open", 3, row.strike, SideSell, InitQty) \in orders

\* C12: after a transient Leg 1 failure has rewound the task to IDLE, the
\* running dispatcher holds a snapshot of the task with which the next
\* price tick can pass the locking transition (IDLE, at the row's version).
C12_TransientSelfHeals ==
    (/\ proc = "running" /\ ~cancelled
     /\ row.status = TaskStateIdle /\ Contains(row.lastError, ErrDeadline)
     /\ \E w \in Workers :
          wk[w].pc = "idle" /\ wk[w].locked /\ Contains(wk[w].ret, ErrDeadline))
      => \E i \in 1..Len(activeTasks) :
            /\ activeTasks[i].status = TaskStateIdle
            /\ activeTasks[i].version = row.version

\* the worker whose step wrote the row
Writer(w) == wk'[w] # wk[w] /\ row' # row

\* C13: every write to the row strictly increases the row's version, and
\* every write is conditional on the version the writer observed (the write
\* of register_error excepted, which is described as unconditional on the
\* version).
C13_EveryWriteVersioned ==
    [][\A w \in Workers :
         Writer(w) => /\ row'.version > row.version
                      /\ wk[w].pc # "leg1_fail" => wk[w].version = row.version]_vars

\* C14: the persisted version never decreases, whoever writes and however
\* the writes interleave, and every successful update_state or
\* update_symbol raises it by exactly one.
C14_VersionMonotonic ==
    [][/\ row'.version >= row.version
       /\ \A w \in Workers :
            (Writer(w) /\ wk[w].pc # "leg1_fail") => row'.version = row.version + 1]_vars

\* C14 witness: the row has been through update_state, register_error and,
\* in a later run, update_symbol
C14_Witness ==
    /\ row.lastError # "" /\ row.version >= 4
    /\ row.status = TaskStateIdle /\ row.strike > InitStrike

\* C15: update_state(id, new_status, v) changes the row only when the row's
\* version equals v, and then it sets the status and adds one to the
\* version; on a mismatch it returns an error and leaves the whole row as it
\* was; with a matching version the row stays unchanged only when the
\* statement itself failed in the database.
C15_UpdateStateCas ==
    (sc.phase = "done" /\ sc.op = "update_state") =>
      LET b == sc.before[1] IN
      /\ row # b => b.version = sc.v /\ sc.err = ""
      /\ b.version # sc.v => row = b /\ sc.err # ""
      /\ sc.err = "" => row = [b EXCEPT !.status = sc.arg, !.version = b.version + 1]
      /\ (b.version = sc.v /\ row = b) => Contains(sc.err, ErrDb)

\* C15 witness: a call with a version that is not the row's was refused
\* with the locking error and the row is as before
C15_Witness ==
    /\ sc.phase = "done" /\ sc.op = "update_state"
    /\ sc.before[1].version # sc.v /\ sc.v \in 1..MaxVersion
    /\ sc.err = ErrLock
    /\ row = sc.before[1]

\* C17: an execution of ExecuteRoll that starts on a snapshot whose version
\* is not the version of the persisted row returns nil from its first step
\* with the row and the orders as they were; and whatever step of an
\* execution writes the row or submits an order, the execution has passed
\* the compare-and-set at its snapshot's version (the step is that
\* compare-and-set, or a later step of the execution that won it).
C17_StaleSnapshotSafe ==
    [][\A w \in Workers :
         /\ (wk[w].pc = "exec" /\ wk[w].snap # row.version /\ wk'[w] # wk[w]
                /\ proc' # "down")
              => /\ row' = row /\ orders' = orders
                 /\ wk'[w].pc = "idle" /\ wk'[w].ret = "nil"
                 /\ ~wk'[w].locked
         /\ (wk'[w] # wk[w] /\ (row' # row \/ orders' # orders))
              => IF wk[w].pc = "exec" THEN wk[w].snap = row.version
                 ELSE wk[w].locked]_vars

\* C17 witness: after the roll has moved the row on, an execution on the
\* version-1 snapshot has returned nil without the lock; the row and the
\* orders are those of the roll
C17_Witness ==
    \E w \in Workers :
      /\ wk[w].pc = "idle" /\ wk[w].ret = "nil"
      /\ wk[w].snap = 1 /\ ~wk[w].locked /\ wk[w].nClose = 0 /\ wk[w].nOpen = 0
      /\ row.version = 4 /\ row.status = TaskStateIdle
      /\ \A o \in orders : o.ver \in {2, 3}

\* the AddSubscriptions call of reload g can no longer proceed: it waits in
\* sendSubscribe for the mutex it holds, or for the mutex such a call holds
AddStuck(g) ==
    \/ ms.rl[g].pc = "send" /\ ms.mu = g
    \/ ms.rl[g].pc = "lock" /\ ms.mu # 0

\* C16: once reload_tasks has replaced the snapshot and its call of
\* add_subscriptions is over or can no longer proceed, every symbol of the
\* snapshot is subscribed on the connection the stream is listening on, so
\* that its price events reach the dispatcher.
C16_HotReload ==
    (/\ ms.pc = "listen"
     /\ \E g \in Reloads : ms.rl[g].pc # "off"
     /\ \A g \in Reloads : ms.rl[g].pc \in {"off", "done"} \/ AddStuck(g))
      => ms.snap \subseteq ms.live

\* C18: when a new connection starts listening, the topics subscribed on it
\* cover the whole active subscription set.
C18_SubscriptionReplay ==
    [][(ms.pc # "listen" /\ ms'.pc = "listen") => ms.activeSubs \subseteq ms'.live]_vars

\* C19: add_subscriptions, having found a connection, never waits inside
\* sendSubscribe for the socket mutex while holding that mutex itself.
C19_AddSubscriptionsReturns ==
    \A g \in Reloads : ~(ms.rl[g].pc = "send" /\ ms.mu = g)

\* C20: after a heartbeat ping has failed on a connection, the stream is no
\* longer listening on that socket (it is closing it or waiting to reconnect).
C20_ReconnectOnWriteError ==
    ms.pingFailed => ms.pc # "listen"

\* the reader loop handles the ticker of symbol y and is back at ReadMessage
ReadsTicker(y) ==
    /\ McRead
    /\ ms'.pc = "listen"
    /\ \/ ms'.out = Append(ms.out, y)
       \/ Len(ms.out) = OutCap /\ ms'.out = ms.out

\* C21: whatever the output channel holds, the reader loop can take the
\* next ticker of every subscribed symbol and go on reading; the channel
\* never holds more than its capacity, so on a full channel the event is
\* dropped.
C21_ReaderNeverBlocks ==
    /\ Len(ms.out) <= OutCap
    /\ ms.pc = "listen" => \A y \in ms.live : ENABLED ReadsTicker(y)

\* C21 witness: the stream is listening with subscribed topics while the
\* output channel is full and the consumer has not taken anything
C21_Witness ==
    /\ ms.pc = "listen" /\ ms.live # {}
    /\ Len(ms.out) = OutCap

\* the dispatcher handles the price event p as stated: of the tasks the
\* event triggers, in snapshot order, as many jobs as the queue has room for
\* are appended and the others are dropped
DispatchAsStated(p) ==
    /\ Dispatch(p)
    /\ LET a == Affected(activeTasks, p)
           room == QueueCap - Len(jobChan)
           n == IF Len(a) <= room THEN Len(a) ELSE room
       IN jobChan' = jobChan \o [i \in 1..n |-> [task |-> a[i], price |-> p]]

\* C22: while the dispatcher loop runs it can handle every price event at
\* once, whatever the job queue holds and whatever the workers do: the
\* queue never exceeds its capacity, jobs that do not fit are dropped, and a
\* triggering event puts the task on the queue whenever there is room.
C22_DispatcherNeverBlocks ==
    /\ Len(jobChan) <= QueueCap
    /\ proc = "running" => \A p \in Prices : ENABLED DispatchAsStated(p)

\* C22 witness: the queue is full of jobs for the task, every worker is
\* inside ExecuteRoll, and the next price event still triggers the task
C22_Witness ==
    /\ proc = "running"
    /\ Len(jobChan) = QueueCap
    /\ \A w \in Workers : InFlight(w)
    /\ \E p \in Prices : Affected(activeTasks, p) # <<>>

\* the versions of the client order ids of one kind the exchange has seen
IdsUsed(kind) == {o.ver : o \in {x \in orders : x.kind = kind}}

\* C23: when an attempt (an execution that made the IDLE->ROLL_INITIATED
\* transition) submits its close order, no order with that close id was
\* submitted before; when it submits its first open order, no order with
\* that open id was submitted before.  So no two attempts share a close id
\* or an open id.
C23_OrderIdsUnique ==
    [][\A w \in Workers :
         /\ (wk[w].locked /\ wk[w].pc = "leg1_order" /\ wk'[w].nClose = 1)
              => wk[w].version \notin IdsUsed("close")
         /\ (wk[w].locked /\ wk[w].pc = "leg2_order"
               /\ wk[w].nOpen = 0 /\ wk'[w].nOpen = 1)
              => wk[w].version \notin IdsUsed("open")]_vars

\* C23 witness: a second attempt has submitted its close order and its open
\* order after an earlier attempt had submitted both of its own
C23_Witness ==
    \E w \in Workers :
      /\ wk[w].locked /\ wk[w].nClose = 1 /\ wk[w].nOpen = 1
      /\ wk[w].snap > 1
      /\ Cardinality(IdsUsed("close")) >= 2
      /\ Cardinality(IdsUsed("open")) >= 2

\* the execution is in Leg 2 after the close leg (its own close order, or
\* the one of the execution it resumes) and no open order of its own has
\* been accepted
InLeg2(w) ==
    /\ wk[w].pc \in {"leg2_chain", "leg2_mark", "leg2_order", "leg2_fatal"}
    /\ wk[w].nClose > 0 \/ wk[w].recovery
    /\ wk[w].nOpen = 0

\* C24: the context is cancelled while the task is persisted in
\* LEG1_CLOSED and an execution is in Leg 2 (close leg done, checkpoint
\* written, open order not yet accepted): when that execution returns, the
\* persisted status is still LEG1_CLOSED, and nothing else of the row has
\* changed.
C24_CancelInLeg2 ==
    [][\A w \in Workers :
         (cancelled /\ InLeg2(w) /\ row.status = TaskStateLeg1Closed
            /\ wk'[w].pc = "idle")
           => row' = row]_vars

\* C24 witness: an execution locked the task, closed the position and wrote
\* the checkpoint; the context was cancelled; the execution has returned a
\* context error from Leg 2 without an open order, and the row is
\* LEG1_CLOSED at the checkpoint's version
C24_Witness ==
    \E w \in Workers :
      /\ cancelled
      /\ wk[w].pc = "idle" /\ Contains(wk[w].ret, ErrCtx)
      /\ Contains(wk[w].ret, Leg2FatalText)
      /\ wk[w].locked /\ wk[w].nClose = 1 /\ wk[w].nOpen = 0
      /\ row.status = TaskStateLeg1Closed /\ row.version = wk[w].snap + 2

\* positions of an execution inside processLeg2 and its retry loop
Leg2Pcs == {"leg2_chain", "leg2_mark", "leg2_order", "leg2_sym",
            "loop_check", "loop_sleep"}

\* C25: the first step of ExecuteRoll on a LEG1_CLOSED snapshot, at any
\* price, enters processLeg2 and writes nothing and submits nothing; from
\* then on the execution is inside processLeg2 or has returned: it never
\* takes the lock, never probes the position and no close order is
\* submitted.
C25_RecoveryShortCircuit ==
    [][\A w \in Workers :
         /\ (wk[w].pc = "exec" /\ wk[w].status = TaskStateLeg1Closed
               /\ wk'[w] # wk[w])
              => /\ wk'[w].pc = "leg2_chain" /\ wk'[w].recovery
                 /\ row' = row /\ orders' = orders
         /\ (wk[w].recovery /\ wk'[w] # wk[w])
              => /\ wk'[w].pc \in Leg2Pcs \cup {"idle"}
                 /\ ~wk'[w].locked /\ wk'[w].nClose = 0
                 /\ wk'[w].gate = "none"
                 /\ IdsUsed("close") = {}]_vars

\* C25 witness: an execution on a LEG1_CLOSED snapshot, started at a price
\* on the side of the trigger that does not fire, has had its open order
\* accepted
C25_Witness ==
    \E w \in Workers :
      /\ wk[w].recovery /\ wk[w].pc = "leg2_sym" /\ wk[w].nOpen = 1
      /\ wk[w].status = TaskStateLeg1Closed
      /\ IF IsCallOption(optKind) THEN wk[w].price < Trigger ELSE wk[w].price > Trigger
      /\ orders # {}

\* should_roll as stated: the status is IDLE and the price has reached the
\* trigger, from below for a Call and from above for a Put
TriggerMet(status, kind, price) ==
    /\ status = TaskStateIdle
    /\ \/ kind = "C" /\ price >= Trigger
       \/ kind = "P" /\ price <= Trigger

\* C26: the step of ExecuteRoll on a snapshot that is not LEG1_CLOSED and
\* does not meet the trigger at the observed price is its return with nil:
\* the row and the exchange are as before, and no exchange call is made.
C26_TriggerCheckNoEffect ==
    [][\A w \in Workers :
         (/\ wk[w].pc = "exec"
          /\ wk[w].status # TaskStateLeg1Closed
          /\ ~TriggerMet(wk[w].status, optKind, wk[w].price)
          /\ wk'[w] # wk[w])
           => /\ wk'[w].pc = "idle" /\ wk'[w].ret = "nil"
              /\ ~wk'[w].locked /\ wk'[w].nClose = 0 /\ wk'[w].nOpen = 0
              /\ row' = row
              /\ orders' = orders]_vars

\* C26 witness: ExecuteRoll on the current snapshot of an IDLE task, at a
\* price that does not meet the trigger, has returned nil with the row and
\* the exchange untouched
C26_Witness ==
    \E w \in Workers :
      /\ sc.phase = "saga" /\ sc.before[1].status = TaskStateIdle
      /\ ~TriggerMet(TaskStateIdle, optKind, sc.arg)
      /\ wk[w].snap = sc.v
      /\ wk[w].pc = "idle" /\ wk[w].ret = "nil"
      /\ row = sc.before[1] /\ orders = {}

\* C27: when the snapshot meets the trigger but its version is no longer the
\* row's, the step of ExecuteRoll is its return with nil: the lock is not
\* taken, the row is as before (no register_error) and no order is submitted.
C27_ContentionBenign ==
    [][\A w \in Workers :
         (/\ wk[w].pc = "exec"
          /\ TriggerMet(wk[w].status, optKind, wk[w].price)
          /\ wk[w].version # row.version
          /\ wk'[w] # wk[w])
           => /\ wk'[w].pc = "idle" /\ wk'[w].ret = "nil"
              /\ ~wk'[w].locked /\ wk'[w].nClose = 0 /\ wk'[w].nOpen = 0
              /\ row' = row
              /\ orders' = orders]_vars

\* C27 witness: ExecuteRoll on the version-1 IDLE snapshot, at a price that
\* meets the trigger, has returned nil while the row had moved on to a later
\* version; row and exchange are untouched
C27_Witness ==
    \E w \in Workers :
      /\ sc.phase = "saga" /\ sc.v > wk[w].snap
      /\ wk[w].snap = 1
      /\ TriggerMet(TaskStateIdle, optKind, sc.arg)
      /\ wk[w].pc = "idle" /\ wk[w].ret = "nil" /\ ~wk[w].locked
      /\ row = sc.before[1] /\ orders = {}

\* C28: ShouldRoll(price) is TRUE exactly when the status is IDLE and the
\* price has reached the trigger (Call: price >= trigger, Put: price <=
\* trigger); for a status other than IDLE it is FALSE at every price.
C28_ShouldRoll ==
    (sc.phase = "done" /\ sc.op = "should_roll")
      => /\ sc.ok = TriggerMet(sc.arg, optKind, sc.v)
         /\ sc.arg # TaskStateIdle => ~sc.ok

\* C28 witness: ShouldRoll answered TRUE for an IDLE Put at a price equal to
\* the trigger
C28_Witness ==
    /\ sc.phase = "done" /\ sc.op = "should_roll"
    /\ sc.arg = TaskStateIdle /\ optKind = "P" /\ sc.v = Trigger
    /\ sc.ok

\* the error patterns the statement calls transient
TransientPatterns == {"timeout", ErrDeadline, "502 Bad Gateway", "504 Gateway Timeout"}
\* the message stored for an error of Leg 1
Stored(err) == Wrap("leg 1 failed", err)

\* the step of an execution whose close-order submission failed:
\* handleError and the return of ExecuteRoll
Leg1Abort(w) ==
    /\ wk[w].pc = "leg1_fail" /\ wk[w].submitFailed
    /\ wk'[w] # wk[w]

\* C29 as stated: after a failed close-order submission the execution
\* returns the error without an open order, and the task is IDLE if the
\* error is transient and FAILED otherwise, with the message in last_error.
C29_Leg1FailureAsStated ==
    [][\A w \in Workers :
         Leg1Abort(w)
           => /\ wk'[w].pc = "idle" /\ wk'[w].ret = wk[w].err
              /\ wk'[w].nOpen = 0 /\ orders' = orders
              /\ row'.status = IF Carries(wk[w].err, TransientPatterns)
                               THEN TaskStateIdle ELSE TaskStateFailed
              /\ Contains(row'.lastError, wk[w].err)]_vars

\* C29 amended: a failed close-order submission submits nothing; the
\* execution then returns the error without entering Leg 2 and without an
\* open order; register_error's write, when it succeeds, stores the message
\* and sets IDLE for a transient error and FAILED otherwise, touching
\* nothing else; when it fails (always under a cancelled context) the row
\* stays as it was.
C29_Leg1FailureRegistered ==
    [][\A w \in Workers :
         /\ (wk[w].pc = "leg1_order" /\ wk'[w].pc = "leg1_fail")
              => orders' = orders /\ row' = row /\ wk'[w].nClose = 0
         /\ Leg1Abort(w)
              => /\ wk'[w].pc = "idle" /\ wk'[w].ret = wk[w].err
                 /\ wk'[w].nOpen = 0 /\ orders' = orders
                 /\ \/ row' = row
                    \/ row' = [row EXCEPT
                                 !.lastError = Stored(wk[w].err),
                                 !.status = IF Carries(wk[w].err, TransientPatterns)
                                            THEN TaskStateIdle ELSE TaskStateFailed]
                 /\ cancelled => row' = row
                 /\ (row' = row /\ row.lastError # Stored(wk[w].err))
                      => row'.status = TaskStateRollInitiated]_vars

\* C29 witness: an execution that took the lock has returned the transient
\* error of its failed Leg 1 call with no order on the exchange, and the row is IDLE at the locked
\* version with the message in last_error
C29_Witness ==
    \E w \in Workers :
      /\ wk[w].pc = "idle" /\ wk[w].locked /\ wk[w].ret = ErrDeadline
      /\ wk[w].nClose = 0 /\ wk[w].nOpen = 0 /\ orders = {}
      /\ row.status = TaskStateIdle /\ row.lastError = Stored(ErrDeadline)
      /\ row.version = wk[w].snap + 1

\* an execution past a checkpoint write that failed: its close order was
\* accepted and task.Version is still the version the lock produced
CkptFailed(w) ==
    /\ wk[w].locked /\ wk[w].nClose = 1
    /\ wk[w].pc \in Leg2Pcs \cup {"leg2_fatal"}
    /\ wk[w].version = wk[w].snap + 1

\* C30: the checkpoint step always hands over to processLeg2, whether the
\* write succeeded or not, and a failed write changes nothing; an execution
\* past a failed checkpoint never reaches handleError (register_error), the
\* row's last_error stays as it was, and its open order, when the exchange
\* accepts it, carries the version of the lock and the side of the closed
\* position.
C30_CheckpointFailureGoesOn ==
    [][\A w \in Workers :
         /\ (wk[w].pc = "leg1_ckpt" /\ wk'[w] # wk[w])
              => /\ wk'[w].pc = "leg2_chain"
                 /\ orders' = orders
                 /\ row'.lastError = row.lastError
                 /\ wk'[w].version = wk[w].version => row' = row
         /\ (CkptFailed(w) /\ wk'[w] # wk[w])
              => /\ wk'[w].pc # "leg1_fail"
                 /\ row'.lastError = row.lastError
                 /\ (wk[w].pc = "leg2_order" /\ wk'[w].nOpen = wk[w].nOpen + 1)
                      => orders' = orders \cup
                           {Order("open", wk[w].snap + 1, wk[w].next, SideSell, InitQty)}]_vars

\* C30 witness: the checkpoint write failed (the row is still
\* ROLL_INITIATED at the version of the lock) and the execution has had its
\* open order accepted in Leg 2
C30_Witness ==
    \E w \in Workers :
      /\ CkptFailed(w) /\ wk[w].pc = "leg2_sym" /\ wk[w].nOpen = 1
      /\ row.status = TaskStateRollInitiated /\ row.version = wk[w].version
      /\ row.lastError = ""
      /\ Order("close", wk[w].version, wk[w].strike, SideBuy, InitQty) \in orders
      /\ Order("open", wk[w].version, wk[w].next, SideSell, InitQty) \in orders

\* ---- C31 ------------------------------------------------------------------
\* C31: in a roll, the quantity of the open order and the quantity persisted
\* by UpdateTaskSymbol both equal the quantity the exchange reported in
\* Leg 1's position probe (the quantity the close order was for), also when
\* it differs from current_qty of the task snapshot.
C31_ExchangeQtyIsTruth ==
    \A w \in Workers :
      LET r == wk[w] IN
      /\ (r.locked /\ r.nClose > 0 /\ r.pc = "leg2_sym")
           => Order("open", r.version, r.next, r.side, r.posQty) \in orders
      /\ (r.locked /\ r.nClose > 0 /\ r.committed /\ r.depth = 0 /\ r.pc = "loop_check")
           => row.qty = r.posQty

\* ---- C32 ------------------------------------------------------------------
\* C32: a task has no target_side recorded; Leg 1 adopts the side of the
\* position the exchange reports, so the open order of the roll has the side
\* (Buy or Sell) of the position that was closed.
C32_SideInherited ==
    \A w \in Workers :
      LET r == wk[w] IN
      (r.locked /\ r.nClose > 0 /\ r.pc = "leg2_sym")
        => /\ r.side = exch.side
           /\ Order("open", r.version, r.next, exch.side, r.qty) \in orders

\* ---- C33 ------------------------------------------------------------------
\* C33: every open order is submitted with a side that is Buy or Sell and
\* is the TargetSide of the task the execution holds (a worker at
\* "leg2_order" is about to call PlaceOrder with Side task.TargetSide), in
\* every run of the process, the runs after a restart included, whatever
\* the status the row was read back in.
C33_OpenOrderSide ==
    /\ \A w \in Workers :
         wk[w].pc \in {"leg2_order", "leg2_sym"}
           => /\ wk[w].side \in {SideBuy, SideSell}
              /\ wk[w].pc = "leg2_sym"
                   => Order("open", wk[w].version, wk[w].next, wk[w].side,
                            wk[w].qty) \in orders
    /\ \A o \in orders : o.kind = "open" => o.side \in {SideBuy, SideSell}

\* C33 witness: after a restart an execution has locked the task, closed
\* the position and submitted its open order with side Sell
C33_Witness ==
    \E w \in Workers :
      /\ runs = 2 /\ wk[w].pc = "leg2_sym" /\ wk[w].locked
      /\ wk[w].side = SideSell
      /\ Order("open", wk[w].version, wk[w].next, SideSell, wk[w].qty) \in orders

\* ---- C34 ------------------------------------------------------------------
\* C34: whenever the task is persisted in LEG1_CLOSED, the exchange position
\* in the old option (the row's symbol) has quantity zero, whatever an
\* accepted close order did: matched in full, in part, or not at all.
C34_Leg1ClosedMeansFlat ==
    row.status = TaskStateLeg1Closed => exch.pos[row.strike] = 0

\* ---- C35 ------------------------------------------------------------------
\* C35: once the persisted status is COMPLETED or FAILED, no step of the
\* dispatcher, the workers or a saga execution (one running on an earlier
\* snapshot included) changes the row's status, option symbol or quantity.
C35_TerminalAbsorbing ==
    [][row.status \in Terminal
         => /\ row'.status = row.status
            /\ row'.strike = row.strike
            /\ row'.qty = row.qty]_vars

\* a saga execution that went on to Leg 2 after the row was marked COMPLETED
\* has submitted its open order and returned: its write was refused
C35_Witness ==
    /\ row.status = TaskStateCompleted
    /\ \E w \in Workers :
         /\ wk[w].pc = "idle"
         /\ wk[w].gate \in {"vanished", "expired"}
         /\ wk[w].nOpen > 0

\* ---- C36 ------------------------------------------------------------------
\* C36: after a roll has completed in this process run and the task is back
\* in IDLE with the new symbol and a higher version, the running dispatcher
\* holds a snapshot of the task with which a later price event that meets
\* the trigger can take the IDLE->ROLL_INITIATED lock again (IDLE, at the
\* row's version and symbol), not the pre-roll one.
C36_RollsAgain ==
    (/\ proc = "running" /\ ~cancelled
     /\ row.status = TaskStateIdle /\ row.version > 1
     /\ \E w \in Workers : wk[w].pc = "idle" /\ wk[w].committed /\ wk[w].ret = "nil")
      => \E i \in 1..Len(activeTasks) :
            /\ activeTasks[i].status = TaskStateIdle
            /\ activeTasks[i].version = row.version
            /\ activeTasks[i].strike = row.strike

\* ---- C37 ------------------------------------------------------------------
\* C37: a worker that receives a job whose credential lookup fails (an error
\* or no record) skips the job and goes on: the step that takes a job off the
\* queue leaves the process running, with the rest of the queue in place.
C37_MissingCredentialSkipped ==
    [][(WorkersUp /\ Len(jobChan') < Len(jobChan))
         => /\ proc' = proc
            /\ jobChan' = Tail(jobChan)]_vars

\* ---- C38 ------------------------------------------------------------------
\* C38: the symbols a returned AddSubscriptions call has newly added are
\* subscribed on the connection that is listening: those it added while the
\* stream was dialing or between connections were in the subscribe frame of
\* the very next established connection.
C38_NoLostSubscription ==
    \A g \in Reloads :
      (/\ ms.pc = "listen"
       /\ ms.rl[g].pc = "done" /\ ms.rl[g].ret = "nil"
       /\ ms.rl[g].at \in {"top", "dial", "sleep"})
        => ms.rl[g].newSubs \subseteq ms.live

\* ---- C39 ------------------------------------------------------------------
\* a worker held by the Leg 2 retry loop of another task
StuckOnOther(w) == wk[w].pc \in {"other_loop", "other_sleep"}

\* C39: tasks whose Leg 2 keeps failing cannot starve the others: however
\* many of them are retrying, while a job of the task waits in the queue
\* some worker is not held by such a retry loop, so that the job is
\* eventually taken and its saga executed.
C39_NoStarvation ==
    (proc = "running" /\ jobChan # <<>>) => \E w \in Workers : ~StuckOnOther(w)

====
